---- MODULE Spec2Model ----
(***************************************************************************)
(* Model of padertorch's training-loop core:                               *)
(*   padertorch/train/trigger.py  (IntervalTrigger, EndTrigger)            *)
(*   padertorch/train/trainer.py  (Trainer, ContextTimerDict)              *)
(*                                                                         *)
(* Several specifications share the module:                               *)
(*   SpecTrigger   a harness that evaluates the trigger classes on         *)
(*                 arbitrary (iteration, epoch) call sequences;            *)
(*   SpecBackward  Trainer.backward applied to a drawn review dict;        *)
(*   Spec          Trainer.train / save_checkpoint / load_checkpoint;      *)
(*   SpecConstruct the argument checks of the constructors;                *)
(*   SpecTimer     ContextTimerDict and its timed regions;                 *)
(*   SpecSummary   the summary buffer: update_summary, clip_grad,          *)
(*                 add_summary, reset_summary;                             *)
(*   SpecHistogram the histogram section between two flushes;              *)
(*   SpecTrainStep the calls of one Trainer.train_step.                    *)
(***************************************************************************)
EXTENDS Integers, Sequences, FiniteSets, TLC

VARIABLES
    \* --- trigger harness (SpecTrigger)
    trigger,            \* an IntervalTrigger under evaluation
    end_trigger,        \* an EndTrigger under evaluation
    seeded,             \* an IntervalTrigger seeded by set_last
    call,               \* the last call: its arguments and what was returned
    hist,               \* observations about the calls made so far
    \* --- Trainer.backward (SpecBackward)
    review,             \* the review dict handed to backward
    loss_weights,       \* Trainer.loss_weights
    loss,               \* what backward did: error, total loss, back-propagation
    \* --- Trainer (Spec)
    iteration,          \* Trainer.iteration
    epoch,              \* Trainer.epoch
    model,              \* Trainer.model: parameters and train/eval mode
    optimizer,          \* Trainer.optimizer: its state
    summary,            \* Trainer.summary: values merged and not yet flushed
    timer,              \* Trainer.timer: samples per timing name
    writer,             \* the SummaryWriter: what was emitted under each prefix
    files,              \* storage_dir/checkpoints: ckpt_<k> -> saved dict
    summary_trigger,    \* Trainer.summary_trigger
    checkpoint_trigger, \* Trainer.checkpoint_trigger
    validation_trigger, \* Trainer.validation_trigger
    max_iterations,     \* Trainer.max_iterations (the EndTrigger)
    data_iterator,      \* batches already drawn from this epoch's iterator
    pc,                 \* position of the thread of control in Trainer.train
    error,              \* the exception propagating out of the loop, if any
    \* --- observations of a run (not program state)
    pass,               \* what happened in the current pass of the inner loop
    saves,              \* the save_checkpoint calls of this run, in order
    written,            \* ckpt_<k> -> the trainer's state when it was written
    effects,            \* the last two side effects of train
    trained,            \* train steps completed in this run
    loaded,             \* the checkpoint the trainer was constructed from
    runs,               \* calls of Trainer.train so far
    run_log,            \* the epochs and the flushes of the current run
    \* --- constructors (SpecConstruct)
    args,               \* the arguments handed to the constructors
    constructed,        \* what IntervalTrigger(...) and Trainer(...) gave
    evaluation,         \* the last call of the constructed trigger
    \* --- ContextTimerDict (SpecTimer, SpecSummary)
    timings,            \* ContextTimerDict.timings: name -> list of samples
    regions,            \* the timed regions entered and not yet left
    raised,             \* an exception is propagating out of a region
    timer_log,          \* per name: regions left normally / by an exception
    \* --- summary buffer (SpecSummary, SpecHistogram, SpecTrainStep)
    summary_dict,       \* Trainer.summary: the five sections
    sink,               \* what add_summary handed to the SummaryWriter
    observed,           \* observations about the buffer's use
    \* --- Trainer.train_step (SpecTrainStep)
    step_state,         \* position in train_step, the calls made, the error
    \* --- Trainer.clip_grad (SpecClipGrad)
    clip                \* a clip_grad call: grad_norm, prefix, what it appended

harness_vars == <<trigger, end_trigger, seeded, call, hist>>
backward_vars == <<review, loss_weights, loss>>
trainer_vars == <<iteration, epoch, model, optimizer, summary, timer, writer,
                  files, summary_trigger, checkpoint_trigger,
                  validation_trigger, max_iterations, data_iterator, pc,
                  error, pass, saves, written, effects, trained, loaded,
                  runs, run_log>>
construct_vars == <<args, constructed, evaluation>>
timer_vars == <<timings, regions, raised, timer_log>>
summary_vars == <<summary_dict, sink, observed>>
step_vars == <<step_state>>
clip_vars == <<clip>>
component_vars == <<construct_vars, timer_vars, summary_vars, step_vars,
                    clip_vars>>
vars == <<harness_vars, backward_vars, trainer_vars, component_vars>>

\* ------------------------------------------------------------------ bounds
\* Largest period of an IntervalTrigger / threshold of an EndTrigger in the
\* trigger harness.
MaxPeriod == 5
\* Largest counter value the trigger harness passes to a trigger.
MaxCount == 6

Units == {"epoch", "iteration"}

\* ------------------------------------------------- trigger.py: the classes
\* IntervalTrigger.__init__: period, unit, and the watermark last = 0.
IntervalTrigger(period, unit) ==
    [period |-> period, unit |-> unit, last |-> 0]

\* The counter a trigger looks at ("index" in __call__ and set_last).
index_of(self, it, ep) ==
    IF self.unit = "epoch" THEN ep ELSE it

\* A plausible slip: the watermark is never advanced.
IntervalTrigger_call_no_watermark(self, it, ep) ==
    LET index == index_of(self, it, ep) IN
    IF self.last = index
    THEN [ret |-> FALSE, self |-> self]
    ELSE [ret |-> (index % self.period) = 0, self |-> self]

\* IntervalTrigger.__call__: the returned value and the trigger afterwards.
IntervalTrigger_call(self, it, ep) ==
    LET index == index_of(self, it, ep) IN
    IF self.last = index
    THEN [ret |-> FALSE, self |-> self]
    ELSE [ret |-> (index % self.period) = 0,
          self |-> [self EXCEPT !.last = index]]

\* A plausible slip: set_last always seeds with the iteration counter.
set_last_iteration_only(self, it, ep) ==
    [self EXCEPT !.last = it]

\* IntervalTrigger.set_last: seed the watermark with the selected counter.
set_last(self, it, ep) ==
    [self EXCEPT !.last = index_of(self, it, ep)]

\* EndTrigger is an IntervalTrigger (same __init__) with another __call__.
EndTrigger(period, unit) == IntervalTrigger(period, unit)

\* A plausible slip: the threshold itself does not count as reached.
EndTrigger_call_strict(self, it, ep) ==
    [ret |-> index_of(self, it, ep) > self.period, self |-> self]

\* EndTrigger.__call__: a threshold; the trigger is left as it was.
EndTrigger_call(self, it, ep) ==
    [ret |-> index_of(self, it, ep) >= self.period, self |-> self]

\* ------------------------------------------------------- trigger harness
Min(a, b) == IF a < b THEN a ELSE b

\* The counter the trigger under evaluation selected in the last call.
call_index == index_of(trigger, call.iteration, call.epoch)

\* Fresh triggers of one drawn (period, unit); nothing has been called yet.
HarnessInit ==
    \E period \in 1..MaxPeriod, unit \in Units :
        /\ trigger = IntervalTrigger(period, unit)
        /\ end_trigger = EndTrigger(period, unit)
        /\ seeded = IntervalTrigger(period, unit)
        /\ call = [iteration |-> 0, epoch |-> 0, ret |-> FALSE,
                   end_ret |-> FALSE, seeded_ret |-> FALSE]
        /\ hist = [calls |-> 0, prev_index |-> 0, prev_end_ret |-> FALSE,
                   monotone |-> TRUE, live_upto |-> -1, seeded |-> FALSE,
                   seed_k |-> 0, since_seed |-> 0]

\* One evaluation trigger(it, ep) of every trigger of the harness
\* (the doctests' loop body), with any counters.
HarnessCall ==
    \E it \in 0..MaxCount, ep \in 0..MaxCount :
        LET r == IntervalTrigger_call(trigger, it, ep)
            e == EndTrigger_call(end_trigger, it, ep)
            s == IntervalTrigger_call(seeded, it, ep)
            idx == index_of(trigger, it, ep)
        IN  /\ trigger' = r.self
            /\ end_trigger' = e.self
            /\ seeded' = IF hist.seeded THEN s.self ELSE seeded
            /\ call' = [iteration |-> it, epoch |-> ep, ret |-> r.ret,
                        end_ret |-> e.ret,
                        seeded_ret |-> IF hist.seeded THEN s.ret ELSE FALSE]
            /\ hist' = [hist EXCEPT
                   !.calls = Min(@ + 1, 2),
                   !.prev_index = call_index,
                   !.prev_end_ret = call.end_ret,
                   !.monotone = @ /\ it >= call.iteration /\ ep >= call.epoch,
                   !.live_upto = IF hist.seeded THEN @
                                 ELSE IF idx = @ + 1 THEN idx
                                 ELSE IF idx = @ THEN @
                                 ELSE -2,
                   !.since_seed = IF hist.seeded THEN Min(@ + 1, 2) ELSE 0]
        /\ UNCHANGED <<backward_vars, trainer_vars, component_vars>>

\* The doctest of lines 61-62: a second, fresh trigger of the same period
\* and unit gets set_last(k), where the first one has been evaluated at
\* every counter value 0..k.
HarnessSeed ==
    /\ ~hist.seeded
    /\ hist.live_upto >= 0
    /\ \E it \in 0..MaxCount, ep \in 0..MaxCount :
          /\ index_of(trigger, it, ep) = hist.live_upto
          /\ seeded' = set_last(IntervalTrigger(trigger.period, trigger.unit),
                                it, ep)
    /\ hist' = [hist EXCEPT !.seeded = TRUE, !.seed_k = hist.live_upto]
    /\ UNCHANGED <<trigger, end_trigger, call, backward_vars, trainer_vars,
                   component_vars>>

\* ------------------------------------------------------ Trainer.backward
\* Largest loss value drawn for a review dict.
MaxLoss == 3
\* Weights are multiples of 1/WeightScale: a weight w stands for
\* w / WeightScale, and so does a total loss.
WeightScale == 2
\* Largest weight drawn, in units of 1/WeightScale.
MaxWeight == 2

LossNames == {"a", "b"}

\* Every mapping from some of `names` to a value of `values` (a dict).
Dicts(names, values) == UNION {[d -> values] : d \in SUBSET names}

RECURSIVE weighted_sum(_, _, _)
\* The loop of lines 284-286 over the items `keys` of review['losses'].
weighted_sum(losses, weights, keys) ==
    IF keys = {} THEN 0
    ELSE LET key == CHOOSE k \in keys : TRUE
             weight == IF weights.is_none THEN WeightScale
                       ELSE weights.weights[key]
         IN  weight * losses[key] + weighted_sum(losses, weights, keys \ {key})

\* A plausible slip: the weights are looked up but not applied.
backward_unweighted(rev, weights) ==
    LET losses == rev.losses IN
    IF "losses" \notin rev.keys
    THEN [error |-> "KeyError", loss |-> 0, backward_called |-> FALSE]
    ELSE IF weights.is_none /\ Cardinality(DOMAIN losses) # 1
    THEN [error |-> "Exception", loss |-> 0, backward_called |-> FALSE]
    ELSE IF ~weights.is_none /\ ~(DOMAIN losses \subseteq DOMAIN weights.weights)
    THEN [error |-> "KeyError", loss |-> 0, backward_called |-> FALSE]
    ELSE IF DOMAIN losses = {}
    THEN [error |-> "AttributeError", loss |-> 0, backward_called |-> FALSE]
    ELSE [error |-> "none",
          loss |-> weighted_sum(losses, [is_none |-> TRUE], DOMAIN losses),
          backward_called |-> TRUE]

\* Trainer.backward: the error it raises (if any), the total loss and
\* whether loss.backward() was invoked.  review['losses'] is a KeyError
\* for a review without that key.  With no loss at all the total is the
\* float 0., which has no backward().
backward(rev, weights) ==
    LET losses == rev.losses IN
    IF "losses" \notin rev.keys
    THEN [error |-> "KeyError", loss |-> 0, backward_called |-> FALSE]
    ELSE IF weights.is_none /\ Cardinality(DOMAIN losses) # 1
    THEN [error |-> "Exception", loss |-> 0, backward_called |-> FALSE]
    ELSE IF ~weights.is_none /\ ~(DOMAIN losses \subseteq DOMAIN weights.weights)
    THEN [error |-> "KeyError", loss |-> 0, backward_called |-> FALSE]
    ELSE IF DOMAIN losses = {}
    THEN [error |-> "AttributeError", loss |-> 0, backward_called |-> FALSE]
    ELSE [error |-> "none",
          loss |-> weighted_sum(losses, weights, DOMAIN losses),
          backward_called |-> TRUE]

NotCalled == [error |-> "not_called", loss |-> 0, backward_called |-> FALSE]

\* The review dicts drawn: a 'losses' dict, a scalar 'loss', both, or
\* neither (Model.review's docstring names both keys).
BackwardReviews ==
    {[keys |-> {"losses"}, loss |-> 0, losses |-> l] :
        l \in Dicts(LossNames, 1..MaxLoss)}
    \cup {[keys |-> {"losses", "loss"}, loss |-> v, losses |-> l] :
            v \in 1..MaxLoss, l \in Dicts(LossNames, {MaxLoss})}
    \cup {[keys |-> {"loss"}, loss |-> v, losses |-> <<>>] : v \in 1..MaxLoss}
    \cup {[keys |-> {}, loss |-> 0, losses |-> <<>>]}

\* A review dict and a loss_weights setting (None, or a dict) are drawn.
BackwardInit ==
    /\ review \in BackwardReviews
    /\ loss_weights \in
          {[is_none |-> TRUE, weights |-> <<>>]} \cup
          {[is_none |-> FALSE, weights |-> w] :
              w \in Dicts(LossNames, 0..MaxWeight)}
    /\ loss = NotCalled

\* self.backward(review)
Backward ==
    /\ loss = NotCalled
    /\ loss' = backward(review, loss_weights)
    /\ UNCHANGED <<review, loss_weights, harness_vars, trainer_vars,
                   component_vars>>

\* ---------------------------------------------------------------- Trainer
\* Largest period of summary_step, checkpoint_step and validation_step.
MaxStepPeriod == 2
\* Largest max_iterations a trainer is constructed with.
MaxIterations == 4
\* Largest max_epochs a trainer is constructed with.
MaxEpochs == 2
\* Most batches the train source yields in one epoch.
MaxLen == 2
\* Most batches the validation source yields.
MaxValLen == 1
\* The epoch counter is followed up to this value (a source that stays
\* empty lets it grow without bound).
MaxEpochCount == 4
\* Calls of Trainer.train that are followed (the second one is a resume).
MaxRuns == 2

StepChoices == (1..MaxStepPeriod) \X Units
\* The summary_step settings drawn: one per unit.
SummaryChoices == {<<1, "epoch">>, <<MaxStepPeriod, "iteration">>}
EndChoices == ((1..MaxIterations) \X {"iteration"}) \cup
              ((1..MaxEpochs) \X {"epoch"})

\* IntervalTrigger.new for a (period, unit) pair.
IntervalTrigger_new(step) == IntervalTrigger(step[1], step[2])

\* Trainer.reset_summary: the empty buffer (values merged by train steps
\* and by validation steps are counted apart) and a new ContextTimerDict.
EmptySummary == [train |-> 0, validation |-> 0]
EmptyTimer == [time_per_step |-> 0, time_per_data_loading |-> 0,
               time_per_train_step |-> 0, validation_time |-> 0]
EmptyWriter == [training |-> EmptySummary, validation |-> EmptySummary]

PassStart == [val_evaluated |-> FALSE, val_fired |-> FALSE,
              val_flushed |-> FALSE, val_steps_in_eval |-> TRUE,
              end_evaluated |-> FALSE,
              end_fired |-> FALSE, flushed |-> FALSE, saved |-> FALSE,
              summary_fired |-> FALSE, checkpoint_fired |-> FALSE,
              repeated |-> FALSE,
              pulled |-> FALSE, stepped |-> FALSE, exhausted |-> "no"]
NotLoaded == [path |-> -1, iteration |-> 0, epoch |-> 0, params |-> 0,
              optimizer |-> 0]

\* Nothing of a run seen yet: no iterator obtained, no epoch ended, no
\* flush.  first_len is the length of the first epoch that ended (-1: none
\* yet), uniform tells whether every epoch since had that length.
NoRunLog == [iterators |-> 0, first_len |-> -1, uniform |-> TRUE,
             empty_epoch |-> FALSE, flush_timer |-> EmptyTimer,
             flush_steps |-> 0]

\* The last two side effects, `e` being the newest.
Note(e) == IF effects = <<>> THEN <<e>> ELSE <<effects[Len(effects)], e>>

\* dict d with d[k] = v (a file written, or overwritten).
Put(d, k, v) == [x \in DOMAIN d \cup {k} |-> IF x = k THEN v ELSE d[x]]

\* Trainer.__init__ without init_checkpoint: counters 0, an empty summary,
\* the EndTrigger of the one termination condition given, the three
\* IntervalTriggers; storage_dir holds no checkpoint.
TrainerInit ==
    \E s \in SummaryChoices, c \in StepChoices, v \in StepChoices,
       e \in EndChoices :
        /\ summary_trigger = IntervalTrigger_new(s)
        /\ checkpoint_trigger = IntervalTrigger_new(c)
        /\ validation_trigger = IntervalTrigger_new(v)
        /\ max_iterations = EndTrigger(e[1], e[2])
        /\ iteration = 0
        /\ epoch = 0
        /\ model = [params |-> 0, training |-> TRUE]
        /\ optimizer = 0
        /\ summary = EmptySummary
        /\ timer = EmptyTimer
        /\ writer = EmptyWriter
        /\ files = <<>>
        /\ data_iterator = 0
        /\ pc = "constructed"
        /\ error = "none"
        /\ pass = PassStart
        /\ saves = <<>>
        /\ written = <<>>
        /\ effects = <<>>
        /\ trained = 0
        /\ loaded = NotLoaded
        /\ runs = 0
        /\ run_log = NoRunLog

\* A plausible slip: the buffer is not reset after it has been emitted.
add_summary_keeps_buffer(prefix, s) ==
    /\ writer' = [writer EXCEPT
                    ![prefix] = [train |-> @.train + s.train,
                                 validation |-> @.validation + s.validation]]
    /\ summary' = summary
    /\ timer' = EmptyTimer
    /\ effects' = Note("add_summary_" \o prefix)
    /\ run_log' = [run_log EXCEPT !.flush_timer = timer,
                                  !.flush_steps = s.train]

\* Trainer.add_summary(prefix) for the buffer `s`: everything in the
\* buffer is emitted under the prefix, then reset_summary().
add_summary(prefix, s) ==
    /\ writer' = [writer EXCEPT
                    ![prefix] = [train |-> @.train + s.train,
                                 validation |-> @.validation + s.validation]]
    /\ summary' = EmptySummary
    /\ timer' = EmptyTimer
    /\ effects' = Note("add_summary_" \o prefix)
    /\ run_log' = [run_log EXCEPT !.flush_timer = timer,
                                  !.flush_steps = s.train]

\* The dict torch.save writes.
checkpoint_dict ==
    [model |-> model.params, iteration |-> iteration, epoch |-> epoch,
     optimizer |-> optimizer]

\* A plausible slip: the file is named by the epoch.
checkpoint_path_by_epoch == epoch

\* checkpoint_path: storage_dir/checkpoints/ckpt_<iteration>.
checkpoint_path == iteration

\* Trainer.save_checkpoint; `cause` tells the call in the loop from the
\* one in the finally clause.
save_checkpoint(cause) ==
    /\ files' = Put(files, checkpoint_path, checkpoint_dict)
    /\ saves' = Append(saves, [path |-> checkpoint_path, cause |-> cause,
                               iteration |-> iteration, trained |-> trained])
    /\ written' = Put(written, checkpoint_path,
                      [path |-> checkpoint_path, iteration |-> iteration,
                       epoch |-> epoch, params |-> model.params,
                       optimizer |-> optimizer])
    /\ effects' = Note("save_checkpoint")

\* A plausible slip: the counter is restored as saved, without the + 1.
load_checkpoint_same_iteration(path) ==
    /\ model' = [params |-> files[path].model, training |-> TRUE]
    /\ iteration' = files[path].iteration
    /\ epoch' = files[path].epoch
    /\ optimizer' = files[path].optimizer

\* Trainer.load_checkpoint(path) on a newly constructed trainer.
load_checkpoint(path) ==
    /\ model' = [params |-> files[path].model, training |-> TRUE]
    /\ iteration' = files[path].iteration + 1
    /\ epoch' = files[path].epoch
    /\ optimizer' = files[path].optimizer

parked == <<harness_vars, backward_vars, component_vars>>

\* Trainer.train, lines 165-186: train mode, the three set_last calls,
\* entry into the first epoch with a fresh iterator over the train source.
train_begin ==
    /\ pc = "constructed"
    /\ runs < MaxRuns
    /\ model' = [model EXCEPT !.training = TRUE]
    /\ summary_trigger' = set_last(summary_trigger, iteration, epoch)
    /\ checkpoint_trigger' = set_last(checkpoint_trigger, iteration, epoch)
    /\ validation_trigger' = set_last(validation_trigger, iteration, epoch)
    /\ data_iterator' = 0
    /\ pass' = PassStart
    /\ runs' = runs + 1
    /\ run_log' = [NoRunLog EXCEPT !.iterators = 1]
    /\ pc' = "validation"
    /\ UNCHANGED <<iteration, epoch, optimizer, summary, timer, writer, files,
                   max_iterations, error, saves, written, effects, trained,
                   loaded, parked>>

\* A plausible slip: the EndTrigger is asked first, so that a pass in which
\* it fires returns without looking at the validation trigger.
check_validation_after_end ==
    /\ pc = "validation"
    /\ LET r == IntervalTrigger_call(validation_trigger, iteration, epoch)
           e == EndTrigger_call(max_iterations, iteration, epoch)
       IN
        IF e.ret
        THEN /\ pass' = [PassStart EXCEPT !.end_evaluated = TRUE,
                                          !.end_fired = TRUE]
             /\ pc' = "finally"
             /\ UNCHANGED <<validation_trigger, summary, timer, writer,
                            effects, run_log>>
        ELSE /\ validation_trigger' = r.self
             /\ pass' = [PassStart EXCEPT !.val_evaluated = TRUE,
                                          !.val_fired = r.ret,
                                          !.repeated = pass.exhausted # "no"]
             /\ IF r.ret
                THEN /\ add_summary("training", summary)
                     /\ pc' = "validate"
                ELSE /\ pc' = "end"
                     /\ UNCHANGED <<summary, timer, writer, effects, run_log>>
    /\ UNCHANGED <<iteration, epoch, model, optimizer, files, summary_trigger,
                   checkpoint_trigger, max_iterations, data_iterator, error,
                   saves, written, trained, loaded, runs, parked>>

\* Lines 189-193: a pass of the inner loop starts by asking the validation
\* trigger; when it fires the pending training summary is flushed.
check_validation ==
    /\ pc = "validation"
    /\ LET r == IntervalTrigger_call(validation_trigger, iteration, epoch) IN
        /\ validation_trigger' = r.self
        /\ pass' = [PassStart EXCEPT !.val_evaluated = TRUE,
                                     !.val_fired = r.ret,
                                     !.repeated = pass.exhausted # "no"]
        /\ IF r.ret
           THEN /\ add_summary("training", summary)
                /\ pc' = "validate"
           ELSE /\ pc' = "end"
                /\ UNCHANGED <<summary, timer, writer, effects, run_log>>
    /\ UNCHANGED <<iteration, epoch, model, optimizer, files, summary_trigger,
                   checkpoint_trigger, max_iterations, data_iterator, error,
                   saves, written, trained, loaded, runs, parked>>

\* Lines 230-242: validate starts; inside the 'validation_time' region
\* the model is switched to eval mode.
validate_begin ==
    /\ pc = "validate"
    /\ model' = [model EXCEPT !.training = FALSE]
    /\ effects' = Note("eval")
    /\ pc' = "validation_step"
    /\ UNCHANGED <<iteration, epoch, optimizer, summary, timer, writer, files,
                   summary_trigger, checkpoint_trigger, validation_trigger,
                   max_iterations, data_iterator, error, pass, saves, written,
                   trained, loaded, runs, run_log, parked>>

\* Lines 243-247 and 268-274: the validation source yields a batch (it
\* has at most MaxValLen; the buffer, flushed just before the pass, holds
\* the review of every batch so far) and validation_step merges its review.
validation_step ==
    /\ pc = "validation_step"
    /\ summary.validation < MaxValLen
    /\ summary' = [summary EXCEPT !.validation = @ + 1]
    /\ pass' = [pass EXCEPT !.val_steps_in_eval = @ /\ ~model.training]
    /\ effects' = Note("validation_step")
    /\ UNCHANGED <<iteration, epoch, model, optimizer, timer, writer, files,
                   summary_trigger, checkpoint_trigger, validation_trigger,
                   max_iterations, data_iterator, pc, error, saves, written,
                   trained, loaded, runs, run_log, parked>>

\* A plausible slip: the model is left in eval mode after the validation.
validate_ok_stays_eval ==
    /\ pc = "validation_step"
    /\ add_summary("validation", summary)
    /\ pass' = [pass EXCEPT !.val_flushed = TRUE]
    /\ pc' = "end"
    /\ UNCHANGED <<iteration, epoch, model, optimizer, files, summary_trigger,
                   checkpoint_trigger, validation_trigger, max_iterations,
                   data_iterator, error, saves, written, trained, loaded,
                   runs, parked>>

\* Lines 248-252 and 195: the validation source is exhausted; the flush
\* under 'validation' (the 'validation_time' sample goes with it), then
\* train mode again.
validate_ok ==
    /\ pc = "validation_step"
    /\ add_summary("validation", summary)
    /\ model' = [model EXCEPT !.training = TRUE]
    /\ pass' = [pass EXCEPT !.val_flushed = TRUE]
    /\ pc' = "end"
    /\ UNCHANGED <<iteration, epoch, optimizer, files, summary_trigger,
                   checkpoint_trigger, validation_trigger, max_iterations,
                   data_iterator, error, saves, written, trained, loaded,
                   runs, parked>>

\* The validation source or a validation step raises: the model stays in
\* eval mode, nothing is flushed by validate, 'validation_time' gets no
\* sample.
validate_raise ==
    /\ pc = "validation_step"
    /\ error' = "validation"
    /\ effects' = Note("validate")
    /\ pc' = "finally"
    /\ UNCHANGED <<iteration, epoch, model, optimizer, summary, timer, writer,
                   files, summary_trigger, checkpoint_trigger,
                   validation_trigger, max_iterations, data_iterator, pass,
                   saves, written, trained, loaded, runs, run_log, parked>>

\* A plausible slip: train returns without passing the finally clause.
check_end_no_cleanup ==
    /\ pc = "end"
    /\ LET r == EndTrigger_call(max_iterations, iteration, epoch) IN
        /\ max_iterations' = r.self
        /\ pass' = [pass EXCEPT !.end_evaluated = TRUE, !.end_fired = r.ret]
        /\ pc' = IF r.ret THEN "returned" ELSE "summary"
    /\ UNCHANGED <<iteration, epoch, model, optimizer, summary, timer, writer,
                   files, summary_trigger, checkpoint_trigger,
                   validation_trigger, data_iterator, error, saves, written,
                   effects, trained, loaded, runs, run_log, parked>>

\* A plausible slip: the EndTrigger is honoured at the start of an epoch
\* only (as if it were asked in the outer loop).
check_end_at_epoch_start ==
    /\ pc = "end"
    /\ LET r == EndTrigger_call(max_iterations, iteration, epoch)
           fired == r.ret /\ data_iterator = 0
       IN
        /\ max_iterations' = r.self
        /\ pass' = [pass EXCEPT !.end_evaluated = TRUE, !.end_fired = fired]
        /\ pc' = IF fired THEN "finally" ELSE "summary"
    /\ UNCHANGED <<iteration, epoch, model, optimizer, summary, timer, writer,
                   files, summary_trigger, checkpoint_trigger,
                   validation_trigger, data_iterator, error, saves, written,
                   effects, trained, loaded, runs, run_log, parked>>

\* Lines 196-199: the EndTrigger; when it fires, train returns (through
\* the finally clause).
check_end ==
    /\ pc = "end"
    /\ LET r == EndTrigger_call(max_iterations, iteration, epoch) IN
        /\ max_iterations' = r.self
        /\ pass' = [pass EXCEPT !.end_evaluated = TRUE, !.end_fired = r.ret]
        /\ pc' = IF r.ret THEN "finally" ELSE "summary"
    /\ UNCHANGED <<iteration, epoch, model, optimizer, summary, timer, writer,
                   files, summary_trigger, checkpoint_trigger,
                   validation_trigger, data_iterator, error, saves, written,
                   effects, trained, loaded, runs, run_log, parked>>

\* A plausible slip: the summary is flushed on the trigger alone.
check_summary_trigger_only ==
    /\ pc = "summary"
    /\ LET r == IntervalTrigger_call(summary_trigger, iteration, epoch) IN
        /\ summary_trigger' = r.self
        /\ pass' = [pass EXCEPT !.flushed = r.ret,
                                 !.summary_fired = r.ret]
        /\ IF r.ret
           THEN add_summary("training", summary)
           ELSE UNCHANGED <<summary, timer, writer, effects, run_log>>
    /\ pc' = "checkpoint"
    /\ UNCHANGED <<iteration, epoch, model, optimizer, files,
                   checkpoint_trigger, validation_trigger, max_iterations,
                   data_iterator, error, saves, written, trained,
                   loaded, runs, parked>>

\* Lines 200-203: the summary trigger, or iteration == 1.
check_summary ==
    /\ pc = "summary"
    /\ LET r == IntervalTrigger_call(summary_trigger, iteration, epoch) IN
        /\ summary_trigger' = r.self
        /\ pass' = [pass EXCEPT !.flushed = r.ret \/ iteration = 1,
                                 !.summary_fired = r.ret]
        /\ IF r.ret \/ iteration = 1
           THEN add_summary("training", summary)
           ELSE UNCHANGED <<summary, timer, writer, effects, run_log>>
    /\ pc' = "checkpoint"
    /\ UNCHANGED <<iteration, epoch, model, optimizer, files,
                   checkpoint_trigger, validation_trigger, max_iterations,
                   data_iterator, error, saves, written, trained,
                   loaded, runs, parked>>

\* A plausible slip: the first-iteration rule is left out.
check_checkpoint_trigger_only ==
    /\ pc = "checkpoint"
    /\ LET r == IntervalTrigger_call(checkpoint_trigger, iteration, epoch) IN
        /\ checkpoint_trigger' = r.self
        /\ pass' = [pass EXCEPT !.saved = r.ret,
                                 !.checkpoint_fired = r.ret]
        /\ IF r.ret
           THEN save_checkpoint("loop")
           ELSE UNCHANGED <<files, saves, written, effects>>
    /\ pc' = "pull"
    /\ UNCHANGED <<iteration, epoch, model, optimizer, summary, timer, writer,
                   summary_trigger, validation_trigger, max_iterations,
                   data_iterator, error, trained, loaded, runs, run_log,
                   parked>>

\* Lines 204-207: the checkpoint trigger, or iteration == 1.
check_checkpoint ==
    /\ pc = "checkpoint"
    /\ LET r == IntervalTrigger_call(checkpoint_trigger, iteration, epoch) IN
        /\ checkpoint_trigger' = r.self
        /\ pass' = [pass EXCEPT !.saved = r.ret \/ iteration = 1,
                                 !.checkpoint_fired = r.ret]
        /\ IF r.ret \/ iteration = 1
           THEN save_checkpoint("loop")
           ELSE UNCHANGED <<files, saves, written, effects>>
    /\ pc' = "pull"
    /\ UNCHANGED <<iteration, epoch, model, optimizer, summary, timer, writer,
                   summary_trigger, validation_trigger, max_iterations,
                   data_iterator, error, trained, loaded, runs, run_log,
                   parked>>

\* Lines 209-212 and 219-221: next(data_iterator) yields a batch.
pull_batch ==
    /\ pc = "pull"
    /\ data_iterator < MaxLen
    /\ data_iterator' = data_iterator + 1
    /\ timer' = [timer EXCEPT !.time_per_data_loading = @ + 1]
    /\ pass' = [pass EXCEPT !.pulled = TRUE]
    /\ effects' = Note("next")
    /\ pc' = "train_step"
    /\ UNCHANGED <<iteration, epoch, model, optimizer, summary, writer, files,
                   summary_trigger, checkpoint_trigger, validation_trigger,
                   max_iterations, error, saves, written, trained, loaded,
                   runs, run_log, parked>>

\* Line 214: what decides between the break and the error.
break_on_exhaustion == iteration > 0

\* A plausible slip: the iterator is obtained once, before the epoch loop,
\* so that every epoch after the first finds it exhausted.
pull_exhausted_keeps_iterator ==
    /\ pc = "pull"
    /\ break_on_exhaustion => epoch < MaxEpochCount
    /\ pass' = [pass EXCEPT !.pulled = TRUE,
                  !.exhausted = IF data_iterator = 0 THEN "first" ELSE "later"]
    /\ effects' = Note("next")
    /\ run_log' = [run_log EXCEPT
          !.first_len = IF @ = -1 THEN data_iterator ELSE @,
          !.uniform = @ /\ run_log.first_len \in {-1, data_iterator},
          !.empty_epoch = @ \/ data_iterator = 0]
    /\ IF break_on_exhaustion
       THEN /\ epoch' = epoch + 1
            /\ timer' = [timer EXCEPT !.time_per_step = @ + 1]
            /\ pc' = "validation"
            /\ UNCHANGED error
       ELSE /\ error' = "Zero length train iterator"
            /\ pc' = "finally"
            /\ UNCHANGED <<epoch, timer>>
    /\ UNCHANGED <<iteration, model, optimizer, summary, writer, files,
                   summary_trigger, checkpoint_trigger, validation_trigger,
                   max_iterations, data_iterator, saves, written, trained,
                   loaded, runs, parked>>

\* A plausible slip: the inner count restarts at 0 in every epoch.
pull_exhausted_resets_iteration ==
    /\ pc = "pull"
    /\ break_on_exhaustion => epoch < MaxEpochCount
    /\ pass' = [pass EXCEPT !.pulled = TRUE,
                  !.exhausted = IF data_iterator = 0 THEN "first" ELSE "later"]
    /\ effects' = Note("next")
    /\ run_log' = [run_log EXCEPT
          !.iterators = IF break_on_exhaustion THEN @ + 1 ELSE @,
          !.first_len = IF @ = -1 THEN data_iterator ELSE @,
          !.uniform = @ /\ run_log.first_len \in {-1, data_iterator},
          !.empty_epoch = @ \/ data_iterator = 0]
    /\ IF break_on_exhaustion
       THEN /\ epoch' = epoch + 1
            /\ iteration' = 0
            /\ data_iterator' = 0
            /\ timer' = [timer EXCEPT !.time_per_step = @ + 1]
            /\ pc' = "validation"
            /\ UNCHANGED error
       ELSE /\ error' = "Zero length train iterator"
            /\ pc' = "finally"
            /\ UNCHANGED <<iteration, epoch, data_iterator, timer>>
    /\ UNCHANGED <<model, optimizer, summary, writer, files,
                   summary_trigger, checkpoint_trigger, validation_trigger,
                   max_iterations, saves, written, trained, loaded, runs,
                   parked>>

\* Lines 213-217 and 184-186: next(data_iterator) raises StopIteration
\* (the source may end after any number of batches).  Either the break -
\* it leaves the 'time_per_step' region normally, so that region gets its
\* sample; the outer loop then increments the epoch and takes a fresh
\* iterator, the inner count restarts at self.iteration - or the
\* 'Zero length train iterator' exception.
pull_exhausted ==
    /\ pc = "pull"
    /\ break_on_exhaustion => epoch < MaxEpochCount
    /\ pass' = [pass EXCEPT !.pulled = TRUE,
                  !.exhausted = IF data_iterator = 0 THEN "first" ELSE "later"]
    /\ effects' = Note("next")
    /\ run_log' = [run_log EXCEPT
          !.iterators = IF break_on_exhaustion THEN @ + 1 ELSE @,
          !.first_len = IF @ = -1 THEN data_iterator ELSE @,
          !.uniform = @ /\ run_log.first_len \in {-1, data_iterator},
          !.empty_epoch = @ \/ data_iterator = 0]
    /\ IF break_on_exhaustion
       THEN /\ epoch' = epoch + 1
            /\ data_iterator' = 0
            /\ timer' = [timer EXCEPT !.time_per_step = @ + 1]
            /\ pc' = "validation"
            /\ UNCHANGED error
       ELSE /\ error' = "Zero length train iterator"
            /\ pc' = "finally"
            /\ UNCHANGED <<epoch, data_iterator, timer>>
    /\ UNCHANGED <<iteration, model, optimizer, summary, writer, files,
                   summary_trigger, checkpoint_trigger, validation_trigger,
                   max_iterations, saves, written, trained, loaded, runs,
                   parked>>

\* Lines 213-215 beyond the epochs that are followed: the source is
\* exhausted at iteration > 0 once more, the break is taken and the outer
\* loop enters the next epoch.  From here on the epoch counter, the timer
\* and the iterators obtained are no longer counted.
pull_exhausted_beyond ==
    /\ pc = "pull"
    /\ break_on_exhaustion
    /\ epoch = MaxEpochCount
    /\ max_iterations.unit = "iteration"
    /\ pass' = [pass EXCEPT !.pulled = TRUE,
                  !.exhausted = IF data_iterator = 0 THEN "first" ELSE "later"]
    /\ effects' = Note("next")
    /\ data_iterator' = 0
    /\ pc' = "beyond"
    /\ UNCHANGED <<iteration, epoch, model, optimizer, summary, timer, writer,
                   files, summary_trigger, checkpoint_trigger,
                   validation_trigger, max_iterations, error, saves, written,
                   trained, loaded, runs, run_log, parked>>

\* Lines 189-207 in such an epoch, when nothing raises: the iteration
\* counter is still the one of the pass before, in which the EndTrigger
\* (unit iteration) was asked and returned False, so it returns False
\* again and the pass arrives at the pull.  What the validation, the
\* summary and the checkpoint of this pass write is not followed.
pass_beyond ==
    /\ pc = "beyond"
    /\ ~EndTrigger_call(max_iterations, iteration, epoch).ret
    /\ pass' = [PassStart EXCEPT !.val_evaluated = TRUE,
                                 !.end_evaluated = TRUE,
                                 !.repeated = TRUE]
    /\ pc' = "pull"
    /\ UNCHANGED <<iteration, epoch, model, optimizer, summary, timer, writer,
                   files, summary_trigger, checkpoint_trigger,
                   validation_trigger, max_iterations, data_iterator, error,
                   saves, written, effects, trained, loaded, runs, run_log,
                   parked>>

\* next(data_iterator) raises something else (the source fails).
pull_raise ==
    /\ pc = "pull"
    /\ pass' = [pass EXCEPT !.pulled = TRUE]
    /\ effects' = Note("next")
    /\ error' = "data"
    /\ pc' = "finally"
    /\ UNCHANGED <<iteration, epoch, model, optimizer, summary, timer, writer,
                   files, summary_trigger, checkpoint_trigger,
                   validation_trigger, max_iterations, data_iterator, saves,
                   written, trained, loaded, runs, run_log, parked>>

\* Lines 223-224, 254-266 and 186: a train step that does not raise; the
\* optimizer steps, the review is merged into the summary, both timed
\* regions get their sample, the inner count moves on.
train_step_ok ==
    /\ pc = "train_step"
    /\ model' = [model EXCEPT !.params = @ + 1]
    /\ optimizer' = optimizer + 1
    /\ summary' = [summary EXCEPT !.train = @ + 1]
    /\ timer' = [timer EXCEPT !.time_per_train_step = @ + 1,
                              !.time_per_step = @ + 1]
    /\ iteration' = iteration + 1
    /\ trained' = trained + 1
    /\ pass' = [pass EXCEPT !.stepped = TRUE]
    /\ effects' = Note("train_step")
    /\ pc' = "validation"
    /\ UNCHANGED <<epoch, writer, files, summary_trigger, checkpoint_trigger,
                   validation_trigger, max_iterations, data_iterator, error,
                   saves, written, loaded, runs, run_log, parked>>

\* A train step that raises, before optimizer.step() or after it (in
\* update_summary): no timing sample, nothing merged, the counter stays.
train_step_raise ==
    /\ pc = "train_step"
    /\ \E stepped \in BOOLEAN :
          /\ model' = [model EXCEPT !.params = IF stepped THEN @ + 1 ELSE @]
          /\ optimizer' = IF stepped THEN optimizer + 1 ELSE optimizer
    /\ pass' = [pass EXCEPT !.stepped = TRUE]
    /\ effects' = Note("train_step")
    /\ error' = "train_step"
    /\ pc' = "finally"
    /\ UNCHANGED <<iteration, epoch, summary, timer, writer, files,
                   summary_trigger, checkpoint_trigger, validation_trigger,
                   max_iterations, data_iterator, saves, written, trained,
                   loaded, runs, run_log, parked>>

\* Line 227, the finally clause: self.add_summary('training').
finally_add_summary ==
    /\ pc = "finally"
    /\ add_summary("training", summary)
    /\ pc' = "finally_save"
    /\ UNCHANGED <<iteration, epoch, model, optimizer, files, summary_trigger,
                   checkpoint_trigger, validation_trigger, max_iterations,
                   data_iterator, error, pass, saves, written, trained,
                   loaded, runs, parked>>

\* Line 228, the finally clause: self.save_checkpoint(); then train
\* returns, or the exception goes on to the caller.
finally_save_checkpoint ==
    /\ pc = "finally_save"
    /\ save_checkpoint("exit")
    /\ pc' = IF error = "none" THEN "returned" ELSE "raised"
    /\ UNCHANGED <<iteration, epoch, model, optimizer, summary, timer, writer,
                   summary_trigger, checkpoint_trigger, validation_trigger,
                   max_iterations, data_iterator, error, pass, trained,
                   loaded, runs, run_log, parked>>

\* Trainer.__init__ with init_checkpoint = ckpt_<path>, after a run has
\* ended: a new trainer of the same configuration on the same storage_dir
\* (new triggers, summary, timer and writer), restored by load_checkpoint.
resume ==
    /\ pc \in {"returned", "raised"}
    /\ runs < MaxRuns
    /\ \E path \in DOMAIN files :
          /\ load_checkpoint(path)
          /\ loaded' = written[path]
    /\ summary_trigger' =
          IntervalTrigger(summary_trigger.period, summary_trigger.unit)
    /\ checkpoint_trigger' =
          IntervalTrigger(checkpoint_trigger.period, checkpoint_trigger.unit)
    /\ validation_trigger' =
          IntervalTrigger(validation_trigger.period, validation_trigger.unit)
    /\ max_iterations' = EndTrigger(max_iterations.period, max_iterations.unit)
    /\ summary' = EmptySummary
    /\ timer' = EmptyTimer
    /\ writer' = EmptyWriter
    /\ data_iterator' = 0
    /\ error' = "none"
    /\ pass' = PassStart
    /\ saves' = <<>>
    /\ effects' = <<>>
    /\ trained' = 0
    /\ run_log' = NoRunLog
    /\ pc' = "constructed"
    /\ UNCHANGED <<files, written, runs, parked>>

\* ------------------------------------------------ constructor arguments
\* Largest absolute value of a period handed to IntervalTrigger(...).
MaxAbsPeriod == 2
\* Largest max_iterations / max_epochs handed to Trainer(...).
MaxEnd == 2
\* Largest counter value the constructed trigger is called with.
MaxCallCount == 3

\* The periods drawn: integers of either sign, and a value that is not an
\* int (a float, say).
PeriodArgs ==
    {[is_int |-> TRUE, value |-> n] : n \in (0 - MaxAbsPeriod)..MaxAbsPeriod}
        \cup {[is_int |-> FALSE, value |-> 0]}
\* The units drawn: the two known ones and another string.
UnitArgs == Units \cup {"step"}
\* max_iterations / max_epochs: None or a number.
EndArgs == {[is_none |-> TRUE, value |-> 0]} \cup
           {[is_none |-> FALSE, value |-> n] : n \in 1..MaxEnd}

NotConstructed == [error |-> "not_constructed"]
NotEvaluated == [error |-> "not_called", ret |-> FALSE]

\* IntervalTrigger.__init__ with its two assertions.
IntervalTrigger_init(period, unit) ==
    IF ~period.is_int THEN [error |-> "AssertionError"]
    ELSE IF unit \notin Units THEN [error |-> "AssertionError"]
    ELSE [error |-> "none", self |-> IntervalTrigger(period.value, unit)]

\* IntervalTrigger.__call__ for any integer period: the watermark is
\* written before the modulo is taken, index % 0 raises ZeroDivisionError,
\* and Python's index % period is 0 for a negative period exactly when
\* index % -period is.
IntervalTrigger_call_int(self, it, ep) ==
    LET index == index_of(self, it, ep)
        marked == [self EXCEPT !.last = index]
    IN  IF self.last = index
        THEN [error |-> "none", ret |-> FALSE, self |-> self]
        ELSE IF self.period = 0
        THEN [error |-> "ZeroDivisionError", ret |-> FALSE, self |-> marked]
        ELSE IF self.period < 0
        THEN [error |-> "none", ret |-> (index % (0 - self.period)) = 0,
              self |-> marked]
        ELSE [error |-> "none",
              ret |-> IntervalTrigger_call(self, it, ep).ret,
              self |-> IntervalTrigger_call(self, it, ep).self]

\* A plausible slip: `or` in place of the exclusive or, so that both
\* conditions may be given and max_iterations wins.
Trainer_init_end_either(mi, me) ==
    IF mi.is_none /\ me.is_none THEN [error |-> "AssertionError"]
    ELSE IF ~mi.is_none
    THEN [error |-> "none",
          max_iterations |-> EndTrigger(mi.value, "iteration")]
    ELSE [error |-> "none", max_iterations |-> EndTrigger(me.value, "epoch")]

\* Trainer.__init__, lines 121-130: exactly one of max_iterations and
\* max_epochs, and the EndTrigger built from it.
Trainer_init_end(mi, me) ==
    IF mi.is_none = me.is_none THEN [error |-> "AssertionError"]
    ELSE IF ~mi.is_none
    THEN [error |-> "none",
          max_iterations |-> EndTrigger(mi.value, "iteration")]
    ELSE [error |-> "none", max_iterations |-> EndTrigger(me.value, "epoch")]

\* Any arguments; nothing is constructed yet.
ConstructInit ==
    /\ args \in [period : PeriodArgs, unit : UnitArgs,
                 max_iterations : EndArgs, max_epochs : EndArgs]
    /\ constructed = [trigger |-> NotConstructed, trainer |-> NotConstructed]
    /\ evaluation = NotEvaluated

ConstructParked ==
    /\ args = [period |-> [is_int |-> TRUE, value |-> 1], unit |-> "epoch",
               max_iterations |-> [is_none |-> FALSE, value |-> 1],
               max_epochs |-> [is_none |-> TRUE, value |-> 0]]
    /\ constructed = [trigger |-> NotConstructed, trainer |-> NotConstructed]
    /\ evaluation = NotEvaluated

construct_rest == <<harness_vars, backward_vars, trainer_vars, timer_vars,
                    summary_vars, step_vars, clip_vars>>

\* IntervalTrigger(period, unit)
construct_trigger ==
    /\ constructed.trigger = NotConstructed
    /\ constructed' = [constructed EXCEPT
                          !.trigger = IntervalTrigger_init(args.period,
                                                           args.unit)]
    /\ UNCHANGED <<args, evaluation, construct_rest>>

\* trigger(iteration, epoch) on the trigger that was constructed.
evaluate_trigger ==
    /\ constructed.trigger.error = "none"
    /\ evaluation.error # "ZeroDivisionError"
    /\ \E it \in 0..MaxCallCount, ep \in 0..MaxCallCount :
          LET r == IntervalTrigger_call_int(constructed.trigger.self, it, ep)
          IN  /\ evaluation' = [error |-> r.error, ret |-> r.ret]
              /\ constructed' = [constructed EXCEPT !.trigger.self = r.self]
    /\ UNCHANGED <<args, construct_rest>>

\* Trainer(..., max_iterations=..., max_epochs=...)
construct_trainer ==
    /\ constructed.trainer = NotConstructed
    /\ constructed' = [constructed EXCEPT
                          !.trainer = Trainer_init_end(args.max_iterations,
                                                       args.max_epochs)]
    /\ UNCHANGED <<args, evaluation, construct_rest>>

\* ---------------------------------------------------- ContextTimerDict
\* Most samples per name that are followed.
MaxSamples == 2
\* Deepest nesting of timed regions.
MaxDepth == 2
\* Most regions of one name left by an exception that are followed.
MaxFailed == 1

\* The names of the doctest.
TimerNames == {"test", "test_2"}

\* d.get(k, default)
Get(d, k, default) == IF k \in DOMAIN d THEN d[k] ELSE default

\* len(timings[name]); timings is a defaultdict(list), a name that never
\* got a sample is no key of it.
samples(t, name) == Get(t, name, 0)

\* A plausible slip: the sample is taken in a finally clause, so a region
\* left by an exception is recorded as well.
ContextTimerDict_exit_finally(t, item, exception) ==
    [timings |-> Put(t, item, samples(t, item) + 1), reraise |-> exception]

\* ContextTimerDict.__getitem__, the part after the yield: on a normal
\* exit the sample is appended; an exception thrown into the generator at
\* the yield skips the append and is re-raised by the context manager.
ContextTimerDict_exit(t, item, exception) ==
    IF exception
    THEN [timings |-> t, reraise |-> TRUE]
    ELSE [timings |-> Put(t, item, samples(t, item) + 1), reraise |-> FALSE]

NoTimerLog == [exits |-> [n \in TimerNames |-> 0],
               failed |-> [n \in TimerNames |-> 0], last |-> "none"]

\* ContextTimerDict(): no samples, no region entered.
TimerInit ==
    /\ timings = <<>>
    /\ regions = <<>>
    /\ raised = FALSE
    /\ timer_log = NoTimerLog

TimerParked == TimerInit

timer_rest == <<harness_vars, backward_vars, trainer_vars, construct_vars,
                summary_vars, step_vars, clip_vars>>

\* with timer[item]: the region is entered (lines 52-55).
region_enter ==
    /\ ~raised
    /\ Len(regions) < MaxDepth
    /\ \E item \in TimerNames : regions' = Append(regions, item)
    /\ timer_log' = [timer_log EXCEPT !.last = "enter"]
    /\ UNCHANGED <<timings, raised, timer_rest>>

\* The body of the innermost region ends normally (lines 56-57).
region_exit ==
    /\ ~raised
    /\ regions # <<>>
    /\ LET item == regions[Len(regions)]
           r == ContextTimerDict_exit(timings, item, FALSE)
       IN  /\ timer_log.exits[item] < MaxSamples
           /\ timings' = r.timings
           /\ raised' = r.reraise
           /\ timer_log' = [timer_log EXCEPT !.exits[item] = @ + 1,
                                             !.last = "exit"]
    /\ regions' = SubSeq(regions, 1, Len(regions) - 1)
    /\ UNCHANGED timer_rest

\* The body of the innermost region raises.
body_raise ==
    /\ ~raised
    /\ regions # <<>>
    /\ timer_log.failed[regions[Len(regions)]] < MaxFailed
    /\ raised' = TRUE
    /\ timer_log' = [timer_log EXCEPT !.last = "raise"]
    /\ UNCHANGED <<timings, regions, timer_rest>>

\* The exception leaves the innermost region.
region_unwind ==
    /\ raised
    /\ regions # <<>>
    /\ LET item == regions[Len(regions)]
           r == ContextTimerDict_exit(timings, item, TRUE)
       IN  /\ timings' = r.timings
           /\ raised' = r.reraise
           /\ timer_log' = [timer_log EXCEPT !.failed[item] = @ + 1,
                                             !.last = "unwind"]
    /\ regions' = SubSeq(regions, 1, Len(regions) - 1)
    /\ UNCHANGED timer_rest

\* Code around the region that was left catches the exception (the
\* doctest's contextlib.suppress, the except clause of line 213).
caller_catch ==
    /\ raised
    /\ timer_log.last = "unwind"
    /\ raised' = FALSE
    /\ timer_log' = [timer_log EXCEPT !.last = "catch"]
    /\ UNCHANGED <<timings, regions, timer_rest>>

\* ------------------------------------------------------ summary buffer
\* "do not hold more than 10K values in memory"
HistogramCap == 10000
\* Train and validation steps followed in SpecSummary.
MaxSteps == 3

Max(a, b) == IF a > b THEN a ELSE b

\* Trainer.reset_summary: the five sections, all empty.  A list section
\* maps a key to the length of its list; the histogram section maps a key
\* to the samples it holds, [lo, hi] standing for the samples lo+1 .. hi
\* of those added under the key since the reset; audios and images map a
\* key to the snapshot kept.
reset_summary ==
    [losses |-> <<>>, scalars |-> <<>>, histograms |-> <<>>,
     audios |-> <<>>, images |-> <<>>]

\* np.zeros(0)
NoSamples == [lo |-> 0, hi |-> 0]

\* review.get(key, dict())
review_get(rev, key) == IF key \in rev.keys THEN rev[key] ELSE <<>>

\* self.summary[section][key].append(...) for every key of d.
append_each(section, d) ==
    [k \in DOMAIN section \cup DOMAIN d |->
        Get(section, k, 0) + (IF k \in DOMAIN d THEN 1 ELSE 0)]

\* np.concatenate([stored, new])[-10000:] for n new values.
concatenate_capped(stored, n) ==
    LET hi == stored.hi + n IN
    [lo |-> IF hi - stored.lo > HistogramCap THEN hi - HistogramCap
            ELSE stored.lo,
     hi |-> hi]

\* Lines 326-330, for the histograms d (key -> number of values).
concatenate_each(section, d) ==
    [k \in DOMAIN section \cup DOMAIN d |->
        IF k \in DOMAIN d
        THEN concatenate_capped(Get(section, k, NoSamples), d[k])
        ELSE section[k]]

\* Lines 331-334: the newest snapshot replaces the one kept.
snapshot_each(section, d) ==
    [k \in DOMAIN section \cup DOMAIN d |->
        IF k \in DOMAIN d THEN d[k] ELSE section[k]]

\* Trainer.update_summary(review)
update_summary(buf, rev) ==
    [losses |-> append_each(buf.losses, review_get(rev, "losses")),
     scalars |-> append_each(buf.scalars, review_get(rev, "scalars")),
     histograms |->
         concatenate_each(buf.histograms, review_get(rev, "histograms")),
     audios |-> snapshot_each(buf.audios, review_get(rev, "audios")),
     images |-> snapshot_each(buf.images, review_get(rev, "images"))]

\* Trainer.clip_grad() for one model and optimizer (grad_norm is a
\* number): one value appended to scalars['grad_norm'] and one to the
\* list histograms['grad_norm_'], lines 315-318.
clip_grad(buf) ==
    LET stored == Get(buf.histograms, "grad_norm_", NoSamples) IN
    [buf EXCEPT
        !.scalars = append_each(@, [k \in {"grad_norm"} |-> 0]),
        !.histograms = Put(@, "grad_norm_",
                           [lo |-> stored.lo, hi |-> stored.hi + 1])]

\* The two timings that add_summary turns into ratios.
RatioKeys == {"time_per_data_loading", "time_per_train_step"}
rel_name(key) ==
    IF key = "time_per_data_loading" THEN "time_rel_data_loading"
    ELSE "time_rel_train_step"

\* Lines 347-352: the timings for which the warning is printed.
timer_warned(t) ==
    {key \in DOMAIN t \cap RatioKeys :
        "time_per_step" \in DOMAIN t /\ t["time_per_step"] # t[key]}

\* A plausible slip: a ratio whose lengths differ is not written.
timer_tags_skip_mismatch(t) ==
    {IF key \in RatioKeys /\ "time_per_step" \in DOMAIN t
     THEN rel_name(key) ELSE key : key \in DOMAIN t \ timer_warned(t)}

\* Lines 343-364: the tags under which the timings are written; a ratio
\* key is renamed and divided whenever 'time_per_step' has samples.
timer_tags(t) ==
    {IF key \in RatioKeys /\ "time_per_step" \in DOMAIN t
     THEN rel_name(key) ELSE key : key \in DOMAIN t}

\* Trainer.add_summary(prefix), lines 337-382: what the writer is given.
add_summary_calls(buf, t, prefix) ==
    [prefix |-> prefix,
     loss_tags |-> DOMAIN buf.losses,
     scalar_tags |-> DOMAIN buf.scalars,
     timer_tags |-> timer_tags(t),
     warned |-> timer_warned(t),
     histograms |-> DOMAIN buf.histograms,
     audios |-> DOMAIN buf.audios,
     images |-> DOMAIN buf.images]

\* A plausible slip: only the summary is renewed, the timer is kept.
add_summary_reset_keeps_timer(buf, t) ==
    [summary |-> reset_summary, timer |-> t]

\* Line 383 (reset_summary): the summary and the timer after the flush.
add_summary_reset(buf, t) ==
    [summary |-> reset_summary, timer |-> <<>>]

RECURSIVE total(_)
\* The number of values held by a list section.
total(section) ==
    IF DOMAIN section = {} THEN 0
    ELSE LET k == CHOOSE x \in DOMAIN section : TRUE IN
         section[k] + total([x \in DOMAIN section \ {k} |-> section[x]])

\* The values of the losses and scalars sections waiting for a flush.
pending_values(buf) == total(buf.losses) + total(buf.scalars)

\* The writer before the first add_summary.
NoSink == [calls |-> 0,
           last |-> add_summary_calls(reset_summary, <<>>, "none"),
           timings |-> <<>>, values |-> 0]
NothingObserved == [last |-> "none", steps |-> 0, merged |-> 0,
                    added |-> <<>>]

\* A new Trainer: reset_summary() in __init__.
SummaryInit ==
    /\ summary_dict = reset_summary
    /\ sink = NoSink
    /\ observed = NothingObserved

SummaryParked == SummaryInit

\* The reviews drawn in SpecSummary: all sections, the losses alone,
\* scalars and histograms, or nothing.
SummaryReviews ==
    {[keys |-> {"losses", "scalars", "histograms", "audios", "images"},
      losses |-> [k \in {"a"} |-> 1], scalars |-> [k \in {"s"} |-> 1],
      histograms |-> [k \in {"h"} |-> 2], audios |-> [k \in {"x"} |-> 1],
      images |-> [k \in {"i"} |-> 1]],
     [keys |-> {"losses"}, losses |-> [k \in {"a", "b"} |-> 1]],
     [keys |-> {"scalars", "histograms"}, scalars |-> [k \in {"s"} |-> 1],
      histograms |-> [k \in {"h"} |-> 1]],
     [keys |-> {}]}

\* Values a review adds to the losses and scalars sections.
review_values(rev) ==
    Cardinality(DOMAIN review_get(rev, "losses"))
        + Cardinality(DOMAIN review_get(rev, "scalars"))

\* Histogram samples added per key by a review.
added_by(added, d) ==
    [k \in DOMAIN added \cup DOMAIN d |->
        Get(added, k, 0) + Get(d, k, 0)]

\* One more sample for each of the timings `names`.
timed(t, names) ==
    [n \in DOMAIN t \cup names |->
        samples(t, n) + (IF n \in names THEN 1 ELSE 0)]

summary_rest == <<harness_vars, backward_vars, trainer_vars, construct_vars,
                  regions, raised, timer_log, step_vars, clip_vars>>

\* Lines 209-224 with 254-266: a pass of the loop with a train step that
\* completes; clip_grad and update_summary(review) fill the buffer, the
\* three timed regions end normally.
pass_completes ==
    /\ observed.steps < MaxSteps
    /\ samples(timings, "time_per_step") < MaxSamples
    /\ \E rev \in SummaryReviews :
          /\ summary_dict' = update_summary(clip_grad(summary_dict), rev)
          /\ observed' = [last |-> "train_step", steps |-> observed.steps + 1,
                          merged |-> observed.merged + 1 + review_values(rev),
                          added |-> added_by(observed.added,
                                       [k \in {"grad_norm_"} |-> 1] @@
                                       review_get(rev, "histograms"))]
    /\ timings' = timed(timings, {"time_per_step", "time_per_data_loading",
                                  "time_per_train_step"})
    /\ UNCHANGED <<sink, summary_rest>>

\* Lines 209-215: the iterator is exhausted and the loop breaks; only the
\* 'time_per_step' region ends normally.
pass_breaks ==
    /\ samples(timings, "time_per_step") < MaxSamples
    /\ timings' = timed(timings, {"time_per_step"})
    /\ observed' = [observed EXCEPT !.last = "break"]
    /\ UNCHANGED <<summary_dict, sink, summary_rest>>

\* Lines 209-224: the train step raises, before or after clip_grad; only
\* the 'time_per_data_loading' region has ended normally.
pass_raises ==
    /\ observed.steps < MaxSteps
    /\ samples(timings, "time_per_data_loading") < MaxSamples
    /\ \E clipped \in BOOLEAN :
          /\ summary_dict' = IF clipped THEN clip_grad(summary_dict)
                             ELSE summary_dict
          /\ observed' = [last |-> "train_step_raised",
                          steps |-> observed.steps + 1,
                          merged |-> observed.merged
                                       + (IF clipped THEN 1 ELSE 0),
                          added |-> IF clipped
                                    THEN added_by(observed.added,
                                            [k \in {"grad_norm_"} |-> 1])
                                    ELSE observed.added]
    /\ timings' = timed(timings, {"time_per_data_loading"})
    /\ UNCHANGED <<sink, summary_rest>>

\* Lines 243-247 with 268-274: a validation step merges its review.
validation_step_merges ==
    /\ observed.steps < MaxSteps
    /\ \E rev \in SummaryReviews :
          /\ summary_dict' = update_summary(summary_dict, rev)
          /\ observed' = [last |-> "validation_step",
                          steps |-> observed.steps + 1,
                          merged |-> observed.merged + review_values(rev),
                          added |-> added_by(observed.added,
                                       review_get(rev, "histograms"))]
    /\ UNCHANGED <<timings, sink, summary_rest>>

\* Line 240: the 'validation_time' region ends normally.
validation_region_ends ==
    /\ samples(timings, "validation_time") < MaxSamples
    /\ timings' = timed(timings, {"validation_time"})
    /\ observed' = [observed EXCEPT !.last = "validation"]
    /\ UNCHANGED <<summary_dict, sink, summary_rest>>

\* Trainer.add_summary(prefix): everything is handed to the writer, then
\* reset_summary().
flush ==
    /\ \E prefix \in {"training", "validation"} :
          sink' = [calls |-> Min(sink.calls + 1, 2),
                   last |-> add_summary_calls(summary_dict, timings, prefix),
                   timings |-> timings,
                   values |-> sink.values + pending_values(summary_dict)]
    /\ summary_dict' = add_summary_reset(summary_dict, timings).summary
    /\ timings' = add_summary_reset(summary_dict, timings).timer
    /\ observed' = [observed EXCEPT !.last = "add_summary", !.added = <<>>]
    /\ UNCHANGED summary_rest

\* --------------------------------- the histograms between two flushes
\* Train steps followed between two flushes.
MaxTrainSteps == 10001
\* Most values added to a histogram of the review between two flushes.
MaxHistogramSamples == 15001

\* The sizes of the histogram a review carries under the key 'h'.
HistogramSizes == {5000, 10001}
\* A review with one histogram of n values, and one with none.
histogram_review(n) ==
    [keys |-> {"histograms"}, histograms |-> [k \in {"h"} |-> n]]
plain_review == [keys |-> {}]

\* Lines 264-266: clip_grad() and update_summary(review) of a train step
\* whose review has a histogram or none.
histogram_train_step ==
    /\ Get(observed.added, "grad_norm_", 0) < MaxTrainSteps
    /\ \E rev \in {plain_review} \cup
                  {histogram_review(n) : n \in HistogramSizes} :
          /\ Get(added_by(observed.added, review_get(rev, "histograms")),
                 "h", 0) <= MaxHistogramSamples
          /\ summary_dict' = update_summary(clip_grad(summary_dict), rev)
          /\ observed' = [observed EXCEPT
                 !.last = "train_step",
                 !.added = added_by(@, [k \in {"grad_norm_"} |-> 1] @@
                                       review_get(rev, "histograms"))]
    /\ UNCHANGED <<timings, sink, summary_rest>>

\* Line 274: update_summary(review) of a validation step whose review has
\* a histogram.
histogram_validation_step ==
    /\ \E n \in HistogramSizes :
          /\ Get(observed.added, "h", 0) + n <= MaxHistogramSamples
          /\ summary_dict' = update_summary(summary_dict, histogram_review(n))
          /\ observed' = [observed EXCEPT
                 !.last = "validation_step",
                 !.added = added_by(@, [k \in {"h"} |-> n])]
    /\ UNCHANGED <<timings, sink, summary_rest>>

\* ---------------------------------------------------- Trainer.train_step
\* train_step has been entered (the two assertions hold), nothing called.
StepStart == [pc |-> "zero_grad", calls |-> <<>>, error |-> "none",
              optimizer_steps |-> 0]
\* Before model.review has returned there is no review.
NoReview == [keys |-> {}, loss |-> 0, losses |-> <<>>]

StepParked ==
    /\ step_state = StepStart

\* A trainer with any loss_weights and an empty summary enters train_step.
StepInit ==
    /\ step_state = StepStart
    /\ review = NoReview
    /\ loss_weights \in
          {[is_none |-> TRUE, weights |-> <<>>]} \cup
          {[is_none |-> FALSE, weights |-> w] :
              w \in Dicts(LossNames, 0..MaxWeight)}
    /\ loss = NotCalled

step_rest == <<harness_vars, trainer_vars, construct_vars, timer_vars, sink,
               observed, clip_vars>>

\* The call made from position `at` is recorded, control moves to `to`.
called(at, name, to) ==
    /\ step_state.pc = at
    /\ step_state' = [step_state EXCEPT !.calls = Append(@, name),
                                        !.pc = to]

\* The call made from position `at` raises `e`, which leaves train_step.
call_raised(at, name, e) ==
    /\ step_state.pc = at
    /\ step_state' = [step_state EXCEPT !.calls = Append(@, name),
                                        !.pc = "raised", !.error = e]

\* Line 260: self.optimizer.zero_grad()
step_zero_grad ==
    /\ called("zero_grad", "optimizer.zero_grad", "forward")
    /\ UNCHANGED <<review, loss_weights, loss, summary_dict, step_rest>>

\* Line 261: model_out = self.model(batch)
step_forward ==
    /\ called("forward", "model", "review")
    /\ UNCHANGED <<review, loss_weights, loss, summary_dict, step_rest>>

\* Line 261: the forward pass raises.
step_forward_raise ==
    /\ call_raised("forward", "model", "forward")
    /\ UNCHANGED <<review, loss_weights, loss, summary_dict, step_rest>>

\* Line 262: review = self.model.review(batch, model_out)
step_review ==
    /\ called("review", "model.review", "backward")
    /\ review' \in BackwardReviews
    /\ UNCHANGED <<loss_weights, loss, summary_dict, step_rest>>

\* Line 262: model.review raises.
step_review_raise ==
    /\ call_raised("review", "model.review", "review")
    /\ UNCHANGED <<review, loss_weights, loss, summary_dict, step_rest>>

\* A plausible slip: an error of backward does not end the step.
after_backward_ignore_error(result) == "clip_grad"

\* Where control is after self.backward(review): an exception leaves
\* train_step.
after_backward(result) ==
    IF result.error = "none" THEN "clip_grad" ELSE "raised"

\* Line 263: self.backward(review)
step_backward ==
    /\ step_state.pc = "backward"
    /\ LET result == backward(review, loss_weights) IN
        /\ loss' = result
        /\ step_state' = [step_state EXCEPT
                             !.calls = Append(@, "backward"),
                             !.pc = after_backward(result),
                             !.error = result.error]
    /\ UNCHANGED <<review, loss_weights, summary_dict, step_rest>>

\* Line 264: self.clip_grad()
step_clip_grad ==
    /\ called("clip_grad", "clip_grad", "step")
    /\ summary_dict' = clip_grad(summary_dict)
    /\ UNCHANGED <<review, loss_weights, loss, step_rest>>

\* Line 265: self.optimizer.step()
step_optimizer_step ==
    /\ step_state.pc = "step"
    /\ step_state' = [step_state EXCEPT
                         !.calls = Append(@, "optimizer.step"),
                         !.pc = "update_summary",
                         !.optimizer_steps = @ + 1]
    /\ UNCHANGED <<review, loss_weights, loss, summary_dict, step_rest>>

\* Line 266: self.update_summary(review)
step_update_summary ==
    /\ called("update_summary", "update_summary", "done")
    /\ summary_dict' = update_summary(summary_dict, review)
    /\ UNCHANGED <<review, loss_weights, loss, step_rest>>

\* ------------------------------------------------------ Trainer.clip_grad
\* Largest norm value an optimizer's clip_grad returns.
MaxNorm == 3
\* Most models (with their optimizers) held in a list or tuple.
MaxModels == 2

\* The nestings of models drawn when self.model and self.optimizer are
\* dicts: the key paths that lead to a model.
KeyPaths ==
    { {<<"gen">>},
      {<<"gen">>, <<"dis">>},
      {<<"gen", "enc">>, <<"gen", "dec">>, <<"dis">>} }

\* What nested_op(..., self.model, self.optimizer) returns, lines 296-300:
\* a number for one model, a list or tuple of numbers for a list or tuple
\* of models, a (nested) dict of numbers for a dict of models.
GradNorms ==
    {[kind |-> "number", value |-> n, elements |-> <<>>, leaves |-> <<>>] :
        n \in 1..MaxNorm}
    \cup {[kind |-> "sequence", value |-> 0, elements |-> e,
           leaves |-> <<>>] :
            e \in UNION {[1..n -> 1..MaxNorm] : n \in 1..MaxModels}}
    \cup {[kind |-> "mapping", value |-> 0, elements |-> <<>>,
           leaves |-> l] :
            l \in UNION {[P -> 1..MaxNorm] : P \in KeyPaths}}

\* The prefix argument: None, or a name.
ClipPrefixes == {[is_none |-> TRUE, name |-> ""],
                 [is_none |-> FALSE, name |-> "gen"]}

\* Lines 292-295: prefix_.
prefix_of(p) == IF p.is_none THEN "" ELSE p.name \o "_"

\* flatten: the key of a leaf is its path joined by '.'.
RECURSIVE flatten_key(_)
flatten_key(path) ==
    IF Len(path) = 1 THEN path[1]
    ELSE path[1] \o "." \o flatten_key(Tail(path))

\* A value appended to a list of the summary: one norm, or the nested
\* structure grad_norm as a whole.
single_norm(n) == [single |-> TRUE, norm |-> n]
whole_structure == [single |-> FALSE, norm |-> 0]

\* self.summary['scalars'][key].append(value) and
\* self.summary['histograms'][key + '_'].append(value)
appended_pair(key, value) ==
    {[section |-> "scalars", key |-> key, value |-> value],
     [section |-> "histograms", key |-> key \o "_", value |-> value]}

\* Lines 301-308: the `if isinstance(grad_norm, dict)` statement.
clip_grad_dict(g, p) ==
    IF g.kind = "mapping"
    THEN UNION {appended_pair(
                    prefix_of(p) \o "grad_norm_" \o flatten_key(path),
                    single_norm(g.leaves[path])) :
                path \in DOMAIN g.leaves}
    ELSE {}

\* Lines 309-318: the following `if isinstance(grad_norm, (list, tuple))`
\* statement with its else branch, which is taken by every grad_norm that
\* is not a list or tuple, a dict included.
clip_grad_sequence(g, p) ==
    IF g.kind = "sequence"
    THEN UNION {appended_pair(
                    prefix_of(p) \o "grad_norm_" \o ToString(i - 1),
                    single_norm(g.elements[i])) :
                i \in DOMAIN g.elements}
    ELSE appended_pair(
            prefix_of(p) \o "grad_norm",
            IF g.kind = "number" THEN single_norm(g.value)
            ELSE whole_structure)

\* Trainer.clip_grad(prefix): everything it appends to the summary.
clip_grad_appends(g, p) == clip_grad_dict(g, p) \cup clip_grad_sequence(g, p)

ClipParked ==
    clip = [grad_norm |-> [kind |-> "number", value |-> 1,
                           elements |-> <<>>, leaves |-> <<>>],
            prefix |-> [is_none |-> TRUE, name |-> ""],
            called |-> FALSE, appended |-> {}]

\* The optimizers' clip_grad results and the prefix are drawn; nothing has
\* been appended to the (empty) summary.
ClipInit ==
    \E g \in GradNorms, p \in ClipPrefixes :
        clip = [grad_norm |-> g, prefix |-> p, called |-> FALSE,
                appended |-> {}]

clip_rest == <<harness_vars, backward_vars, trainer_vars, construct_vars,
               timer_vars, summary_vars, step_vars>>

\* self.clip_grad(prefix)
clip_grad_call ==
    /\ ~clip.called
    /\ clip' = [clip EXCEPT
                  !.called = TRUE,
                  !.appended = clip_grad_appends(clip.grad_norm, clip.prefix)]
    /\ UNCHANGED clip_rest

\* ------------------------------------------------------- specifications
HarnessParked ==
    /\ trigger = IntervalTrigger(1, "epoch")
    /\ end_trigger = EndTrigger(1, "epoch")
    /\ seeded = IntervalTrigger(1, "epoch")
    /\ call = [iteration |-> 0, epoch |-> 0, ret |-> FALSE,
               end_ret |-> FALSE, seeded_ret |-> FALSE]
    /\ hist = [calls |-> 0, prev_index |-> 0, prev_end_ret |-> FALSE,
               monotone |-> TRUE, live_upto |-> -1, seeded |-> FALSE,
               seed_k |-> 0, since_seed |-> 0]

BackwardParked ==
    /\ review = [keys |-> {"losses"}, loss |-> 0, losses |-> <<>>]
    /\ loss_weights = [is_none |-> TRUE, weights |-> <<>>]
    /\ loss = NotCalled

TrainerParked ==
    /\ summary_trigger = IntervalTrigger(1, "epoch")
    /\ checkpoint_trigger = IntervalTrigger(1, "epoch")
    /\ validation_trigger = IntervalTrigger(1, "epoch")
    /\ max_iterations = EndTrigger(1, "epoch")
    /\ iteration = 0
    /\ epoch = 0
    /\ model = [params |-> 0, training |-> TRUE]
    /\ optimizer = 0
    /\ summary = EmptySummary
    /\ timer = EmptyTimer
    /\ writer = EmptyWriter
    /\ files = <<>>
    /\ data_iterator = 0
    /\ pc = "constructed"
    /\ error = "none"
    /\ pass = PassStart
    /\ saves = <<>>
    /\ written = <<>>
    /\ effects = <<>>
    /\ trained = 0
    /\ loaded = NotLoaded
    /\ runs = 0
    /\ run_log = NoRunLog

\* The training loop.
ComponentsParked ==
    ConstructParked /\ TimerParked /\ SummaryParked /\ StepParked /\ ClipParked

Init == TrainerInit /\ HarnessParked /\ BackwardParked /\ ComponentsParked
Next ==
    \/ train_begin
    \/ check_validation
    \/ validate_begin
    \/ validation_step
    \/ validate_ok
    \/ validate_raise
    \/ check_end
    \/ check_summary
    \/ check_checkpoint
    \/ pull_batch
    \/ pull_exhausted
    \/ pull_raise
    \/ train_step_ok
    \/ train_step_raise
    \/ finally_add_summary
    \/ finally_save_checkpoint
    \/ resume
Spec == Init /\ [][Next]_vars

\* The training loop of a trainer constructed with the default
\* summary_step, checkpoint_step and validation_step, with the epochs
\* beyond MaxEpochCount followed in outline; the thread that runs train
\* is never suspended for ever, so a step that can be taken is taken.
InitLive ==
    /\ Init
    /\ summary_trigger = IntervalTrigger_new(<<1, "epoch">>)
    /\ checkpoint_trigger = IntervalTrigger_new(<<1, "epoch">>)
    /\ validation_trigger = IntervalTrigger_new(<<1, "epoch">>)
NextLive == Next \/ pull_exhausted_beyond \/ pass_beyond
SpecLive == InitLive /\ [][NextLive]_vars /\ WF_vars(NextLive)

\* The trigger classes on arbitrary call sequences.
InitTrigger ==
    HarnessInit /\ BackwardParked /\ TrainerParked /\ ComponentsParked
NextTrigger == HarnessCall \/ HarnessSeed
SpecTrigger == InitTrigger /\ [][NextTrigger]_vars

\* Trainer.backward on drawn review dicts and loss weights.
InitBackward ==
    BackwardInit /\ HarnessParked /\ TrainerParked /\ ComponentsParked
NextBackward == Backward
SpecBackward == InitBackward /\ [][NextBackward]_vars

\* The constructors' argument checks.
InitConstruct ==
    /\ ConstructInit /\ HarnessParked /\ BackwardParked /\ TrainerParked
    /\ TimerParked /\ SummaryParked /\ StepParked /\ ClipParked
NextConstruct == construct_trigger \/ evaluate_trigger \/ construct_trainer
SpecConstruct == InitConstruct /\ [][NextConstruct]_vars

\* ContextTimerDict under any nesting of regions that end or raise.
InitTimer ==
    /\ TimerInit /\ HarnessParked /\ BackwardParked /\ TrainerParked
    /\ ConstructParked /\ SummaryParked /\ StepParked /\ ClipParked
NextTimer ==
    \/ region_enter
    \/ region_exit
    \/ body_raise
    \/ region_unwind
    \/ caller_catch
SpecTimer == InitTimer /\ [][NextTimer]_vars

\* The summary buffer and the timer between the steps of the loop and
\* the flushes.
InitSummary ==
    /\ SummaryInit /\ HarnessParked /\ BackwardParked /\ TrainerParked
    /\ ConstructParked /\ TimerParked /\ StepParked /\ ClipParked
NextSummary ==
    \/ pass_completes
    \/ pass_breaks
    \/ pass_raises
    \/ validation_step_merges
    \/ validation_region_ends
    \/ flush
SpecSummary == InitSummary /\ [][NextSummary]_vars

\* The histogram section from one flush to the next.
InitHistogram == InitSummary
NextHistogram == histogram_train_step \/ histogram_validation_step
SpecHistogram == InitHistogram /\ [][NextHistogram]_vars

\* One Trainer.train_step, call by call.
InitTrainStep ==
    /\ StepInit /\ HarnessParked /\ TrainerParked /\ ConstructParked
    /\ TimerParked /\ SummaryParked /\ ClipParked
NextTrainStep ==
    \/ step_zero_grad
    \/ step_forward
    \/ step_forward_raise
    \/ step_review
    \/ step_review_raise
    \/ step_backward
    \/ step_clip_grad
    \/ step_optimizer_step
    \/ step_update_summary
SpecTrainStep == InitTrainStep /\ [][NextTrainStep]_vars

\* Trainer.clip_grad on drawn norm structures and prefixes.
InitClipGrad ==
    /\ ClipInit /\ HarnessParked /\ BackwardParked /\ TrainerParked
    /\ ConstructParked /\ TimerParked /\ SummaryParked /\ StepParked
NextClipGrad == clip_grad_call
SpecClipGrad == InitClipGrad /\ [][NextClipGrad]_vars

\* ----------------------------------------------------------------- claims

\* C1: on a non-decreasing sequence of counters, a freshly constructed
\* IntervalTrigger returns true exactly when the selected counter is a
\* multiple of the period and differs from the value observed before (0,
\* the initial watermark, before the first call); a repeated call with an
\* unchanged selected counter returns false, whatever the other counter.
C1_FiringRule ==
    (hist.calls > 0 /\ hist.monotone) =>
        /\ call.ret = (/\ call_index % trigger.period = 0
                       /\ call_index # hist.prev_index)
        /\ (call_index = hist.prev_index => ~call.ret)

\* C1 witness: an epoch trigger of period > 1 fires at twice its period,
\* having observed another epoch before, while the iteration differs.
C1_Witness ==
    /\ hist.calls > 1 /\ hist.monotone /\ call.ret
    /\ trigger.unit = "epoch" /\ trigger.period > 1
    /\ call_index = 2 * trigger.period
    /\ hist.prev_index = call_index - 1
    /\ call.iteration # call.epoch

\* C2: an EndTrigger returns true exactly when the selected counter is at
\* least its period, whatever the other counter and the earlier calls;
\* a call leaves the trigger as constructed; on non-decreasing counters
\* it stays true once it was true.
C2_EndThreshold ==
    hist.calls > 0 =>
        /\ call.end_ret =
             (index_of(end_trigger, call.iteration, call.epoch)
                >= end_trigger.period)
        /\ end_trigger = EndTrigger(trigger.period, trigger.unit)
        /\ (hist.calls > 1 /\ hist.monotone /\ hist.prev_end_ret)
             => call.end_ret

\* C2 witness: EndTrigger(5, 'iteration') turns true at iteration 5, in an
\* epoch below 5, after a call in which it was false.
C2_Witness ==
    /\ hist.calls > 1 /\ hist.monotone
    /\ end_trigger.unit = "iteration" /\ end_trigger.period = 5
    /\ call.iteration = 5 /\ call.epoch < 5
    /\ ~hist.prev_end_ret /\ call.end_ret

\* C9: a trigger seeded with set_last(k) is in the same state as one of
\* the same period and unit evaluated at every counter 0..k; the two
\* return the same on every later call, and a call at k returns false.
C9_SetLastEquivalence ==
    hist.seeded =>
        /\ seeded = trigger
        /\ (hist.since_seed > 0 => call.seeded_ret = call.ret)
        /\ (hist.since_seed = 1 /\ call_index = hist.seed_k)
             => (~call.ret /\ ~call.seeded_ret)

\* C9 witness: after set_last(k) with k > 0 a multiple of the period
\* (period > 1, unit epoch), both triggers were called at k.
C9_Witness ==
    /\ hist.seeded /\ hist.since_seed = 1
    /\ trigger.unit = "epoch" /\ trigger.period > 1
    /\ hist.seed_k > 0 /\ hist.seed_k % trigger.period = 0
    /\ call_index = hist.seed_k
    /\ call.iteration # call.epoch

\* The term of loss `name` in the total, in units of 1/WeightScale.
C10_Term(name) ==
    IF name \in DOMAIN review.losses
    THEN (IF loss_weights.is_none THEN WeightScale
          ELSE loss_weights.weights[name]) * review.losses[name]
    ELSE 0

\* C10: whenever backward back-propagates, the total loss is the sum of
\* loss_weights[name] * losses[name] over the entries of review.losses
\* (weight 1 without loss_weights, which then takes exactly one loss);
\* without loss_weights and with more than one loss it raises the
\* configuration error and does not back-propagate.
C10_LossAggregation ==
    loss # NotCalled =>
        /\ loss.backward_called =>
              /\ loss.error = "none"
              /\ loss.loss = C10_Term("a") + C10_Term("b")
        /\ (loss_weights.is_none /\ Cardinality(DOMAIN review.losses) = 1)
             => /\ loss.backward_called
                /\ \A n \in DOMAIN review.losses :
                      loss.loss = WeightScale * review.losses[n]
        /\ (loss_weights.is_none /\ Cardinality(DOMAIN review.losses) > 1)
             => (loss.error = "Exception" /\ ~loss.backward_called)
        /\ (/\ ~loss_weights.is_none
            /\ review.losses # <<>>
            /\ DOMAIN review.losses \subseteq DOMAIN loss_weights.weights)
             => loss.backward_called

\* C10 witness: losses a = 2, b = 3 with weights a = 0.5, b = 1 gave 4.
C10_Witness ==
    /\ loss.backward_called
    /\ DOMAIN review.losses = {"a", "b"}
    /\ review.losses["a"] = 2 /\ review.losses["b"] = 3
    /\ ~loss_weights.is_none
    /\ DOMAIN loss_weights.weights = {"a", "b"}
    /\ 2 * loss_weights.weights["a"] = WeightScale
    /\ loss_weights.weights["b"] = WeightScale
    /\ loss.loss = 4 * WeightScale

C4_NeverOverwritten ==
    \A i, j \in 1..Len(saves) : i < j => saves[i].path # saves[j].path

\* C4 amended: every save writes ckpt_<iteration> of the current counter,
\* and two saves of a run write the same path only at the same count of
\* completed train steps: a checkpoint is never overwritten by one written
\* after a further train step.
C4_OverwriteOnlySameStep ==
    \A j \in 1..Len(saves) :
        /\ saves[j].path = saves[j].iteration
        /\ \A i \in 1..(j - 1) :
              saves[i].path = saves[j].path
                  => saves[i].trained = saves[j].trained

\* C4 witness: the final save has overwritten the checkpoint that the
\* loop wrote at the same iteration.
C4_Witness ==
    \E i, j \in 1..Len(saves) :
        /\ i < j
        /\ saves[i].path = saves[j].path
        /\ saves[i].cause = "loop" /\ saves[j].cause = "exit"
        /\ saves[i].trained = saves[j].trained

\* C5: a fresh run with max_iterations = M and checkpoint_step =
\* (p, 'iteration') that returns leaves exactly the checkpoints of
\* iterations {1}, {k : 0 < k < M, k mod p = 0} and {M}, one save being
\* the one on the exit path.
C5_CheckpointSchedule ==
    (/\ pc = "returned" /\ loaded = NotLoaded
     /\ max_iterations.unit = "iteration"
     /\ checkpoint_trigger.unit = "iteration") =>
        LET M == max_iterations.period
            p == checkpoint_trigger.period
        IN  /\ DOMAIN files =
                 {1} \cup {k \in 1..(M - 1) : k % p = 0} \cup {M}
            /\ Cardinality({i \in 1..Len(saves) :
                               saves[i].cause = "exit"}) = 1

\* C5 witness: max_iterations = 4, checkpoint_step = (2, 'iteration'):
\* the run has returned with the files 1, 2 and 4.
C5_Witness ==
    /\ pc = "returned" /\ loaded = NotLoaded
    /\ max_iterations.unit = "iteration" /\ max_iterations.period = 4
    /\ checkpoint_trigger.unit = "iteration"
    /\ checkpoint_trigger.period = 2
    /\ DOMAIN files = {1, 2, 4}

\* C6: in every pass the validation trigger is asked before the
\* EndTrigger; in the pass in which the EndTrigger fires, a validation
\* that was due has been completed, flush under 'validation' included,
\* and neither a data pull nor a train step takes place.
C6_ValidationBeforeEnd ==
    /\ pass.end_evaluated => pass.val_evaluated
    /\ pass.end_fired =>
          /\ pass.val_fired => pass.val_flushed
          /\ ~pass.pulled
          /\ ~pass.stepped

\* C6 witness: train has returned from a pass in which validation was due
\* and was flushed.
C6_Witness ==
    /\ pc = "returned"
    /\ pass.end_fired /\ pass.val_fired /\ pass.val_flushed
    /\ writer["validation"].validation > 0

\* C7: a trainer constructed from a checkpoint that was written while the
\* counters were (i, e) has iteration i + 1, epoch e, and the model and
\* optimizer state of the moment of the save.
C7_RoundTrip ==
    (pc = "constructed" /\ loaded.path >= 0) =>
        /\ iteration = loaded.iteration + 1
        /\ epoch = loaded.epoch
        /\ model.params = loaded.params
        /\ optimizer = loaded.optimizer

\* C7 witness: a checkpoint saved at iteration 3 (epoch > 0) was loaded;
\* the counter is 4.
C7_Witness ==
    /\ pc = "constructed" /\ loaded.path >= 0
    /\ loaded.iteration = 3 /\ loaded.epoch > 0 /\ loaded.params = 3
    /\ iteration = 4

\* C8 as stated: an iterator exhausted after a batch of this epoch lets
\* the loop go on to the next epoch; an iterator exhausted on the first
\* pull of an epoch makes train fail with 'Zero length train iterator'.
C8_ExhaustedIterator ==
    /\ pass.exhausted = "later" => (pc = "validation" /\ error = "none")
    /\ pass.exhausted = "first" =>
          /\ pc \in {"finally", "finally_save", "raised"}
          /\ error = "Zero length train iterator"

\* C15: in a fresh run, the pass of the inner loop that runs with the
\* iteration counter at 1 and gets past the EndTrigger has flushed the
\* training summary and saved ckpt_1 by the time it pulls the next batch,
\* whatever the periods and units of summary_step and checkpoint_step.
C15_FirstIterationRule ==
    (loaded = NotLoaded /\ iteration = 1 /\ pc \in {"pull", "train_step"}) =>
        /\ pass.flushed /\ pass.saved
        /\ summary = EmptySummary
        /\ writer["training"].train = 1
        /\ 1 \in DOMAIN files
        /\ files[1].iteration = 1

\* C15 witness: summary_step and checkpoint_step are (2, 'iteration'),
\* neither trigger fires at iteration 1, and the pass has flushed and saved.
C15_Witness ==
    /\ loaded = NotLoaded /\ iteration = 1 /\ pc = "pull" /\ epoch = 0
    /\ summary_trigger = [period |-> 2, unit |-> "iteration", last |-> 1]
    /\ checkpoint_trigger = [period |-> 2, unit |-> "iteration", last |-> 1]
    /\ pass.flushed /\ pass.saved
    /\ DOMAIN files = {1}

\* C19: a train step starts with the model in training mode, every
\* validation step runs with the model in eval mode; a validation pass
\* starts right after a flush of the training summary (the buffer is
\* empty), and when it has completed it has flushed under 'validation'
\* and the model is in training mode again.
C19_ModeDiscipline ==
    /\ pc = "train_step" => model.training
    /\ pc = "validation_step" => ~model.training
    /\ pass.val_steps_in_eval
    /\ pc = "validate" =>
          /\ summary = EmptySummary
          /\ effects[Len(effects)] = "add_summary_training"
    /\ (pc = "end" /\ pass.val_fired) =>
          /\ pass.val_flushed
          /\ model.training
          /\ effects[Len(effects)] = "add_summary_validation"

\* C19 witness: a train step is about to run in training mode, in a pass
\* in which a validation pass with a validation step was completed, after
\* an earlier train step.
C19_Witness ==
    /\ pc = "train_step" /\ model.training
    /\ trained > 0
    /\ pass.val_fired /\ pass.val_flushed
    /\ writer["validation"].validation > 0

\* C16 as stated: a trigger exists only if its period is a positive
\* integer and its unit is 'epoch' or 'iteration'; any other argument
\* fails at construction.
C16_InvalidTriggerRejected ==
    constructed.trigger.error = "none" =>
        /\ args.period.is_int /\ args.period.value > 0
        /\ args.unit \in Units

\* C17: Trainer construction fails unless exactly one of max_iterations
\* and max_epochs is given; with exactly one, the EndTrigger has that
\* value as its period and the matching unit.
C17_TerminationCondition ==
    constructed.trainer # NotConstructed =>
        LET mi == args.max_iterations
            me == args.max_epochs
            result == constructed.trainer
        IN  /\ (mi.is_none /\ me.is_none) => result.error = "AssertionError"
            /\ (~mi.is_none /\ ~me.is_none) => result.error = "AssertionError"
            /\ (~mi.is_none /\ me.is_none) =>
                  /\ result.error = "none"
                  /\ result.max_iterations.period = mi.value
                  /\ result.max_iterations.unit = "iteration"
            /\ (mi.is_none /\ ~me.is_none) =>
                  /\ result.error = "none"
                  /\ result.max_iterations.period = me.value
                  /\ result.max_iterations.unit = "epoch"

\* C17 witness: max_epochs = 2 alone gave EndTrigger(2, 'epoch').
C17_Witness ==
    /\ args.max_iterations.is_none
    /\ args.max_epochs = [is_none |-> FALSE, value |-> 2]
    /\ constructed.trainer.error = "none"
    /\ constructed.trainer.max_iterations = EndTrigger(2, "epoch")

\* C12: the list of every name holds exactly one sample per region of
\* that name that ended normally (a name without such a region is no key),
\* so a region left by an exception added nothing to any list; and when an
\* exception has left a region it is still propagating.
C12_TimerSampling ==
    /\ \A n \in TimerNames : samples(timings, n) = timer_log.exits[n]
    /\ DOMAIN timings = {n \in TimerNames : timer_log.exits[n] > 0}
    /\ timer_log.last = "unwind" => raised

\* C12 witness: the doctest - two regions 'test' and one 'test_2' ended
\* normally, another 'test_2' region raised and the exception has just
\* left it: 'test' has 2 samples, 'test_2' has 1.
C12_Witness ==
    /\ samples(timings, "test") = 2 /\ samples(timings, "test_2") = 1
    /\ timer_log.failed["test_2"] = 1
    /\ timer_log.last = "unwind" /\ raised /\ regions = <<>>

\* C13 as stated: a flush writes a ratio only when 'time_per_step' has
\* samples and as many as the numerator; when the lengths differ the
\* warning is printed and the ratio is not written.
C13_RatioSkippedOnMismatch ==
    \A key \in RatioKeys :
        /\ rel_name(key) \in sink.last.timer_tags =>
              /\ "time_per_step" \in DOMAIN sink.timings
              /\ sink.timings["time_per_step"] = samples(sink.timings, key)
        /\ key \in sink.last.warned => rel_name(key) \notin sink.last.timer_tags

\* C13 amended: a flush writes the ratio of a numerator that has samples
\* exactly when 'time_per_step' has samples, whatever the lengths (without
\* 'time_per_step' the numerator is written under its own name); the
\* warning is printed exactly when both have samples and the lengths
\* differ, and the ratio is written all the same.
C13_RatioWheneverStepTimed ==
    \A key \in RatioKeys :
        LET t == sink.timings IN
        /\ rel_name(key) \in sink.last.timer_tags <=>
              (key \in DOMAIN t /\ "time_per_step" \in DOMAIN t)
        /\ key \in sink.last.timer_tags <=>
              (key \in DOMAIN t /\ "time_per_step" \notin DOMAIN t)
        /\ key \in sink.last.warned <=>
              /\ key \in DOMAIN t /\ "time_per_step" \in DOMAIN t
              /\ t[key] # t["time_per_step"]

\* C13 witness: a flush after a pass and a break: 'time_per_step' has two
\* samples, 'time_per_data_loading' one; the warning was printed and the
\* ratio written.
C13_Witness ==
    /\ observed.last = "add_summary"
    /\ samples(sink.timings, "time_per_step") = 2
    /\ samples(sink.timings, "time_per_data_loading") = 1
    /\ "time_per_data_loading" \in sink.last.warned
    /\ "time_rel_data_loading" \in sink.last.timer_tags

\* C14: right after add_summary every section of the summary is empty and
\* the timer has no samples; and at any time the values written so far and
\* the values waiting in the buffer are together the values merged so far,
\* so no value is written twice.
C14_ResetAfterFlush ==
    /\ observed.last = "add_summary" =>
          /\ \A section \in {"losses", "scalars", "histograms", "audios",
                             "images"} : DOMAIN summary_dict[section] = {}
          /\ DOMAIN timings = {}
    /\ sink.values + pending_values(summary_dict) = observed.merged

\* C14 witness: a second flush has returned; values were written by both
\* this flush and the one before.
C14_Witness ==
    /\ observed.last = "add_summary"
    /\ sink.calls = 2
    /\ sink.last.loss_tags = {"a", "b"}
    /\ sink.last.audios = {}
    /\ sink.timings # <<>>
    /\ sink.values > 4

\* C11 as stated: between two flushes every key of the histogram section
\* holds at most HistogramCap samples, and they are the most recently
\* added ones (the last of the samples added under the key).
C11_HistogramCap ==
    \A key \in DOMAIN summary_dict.histograms :
        LET stored == summary_dict.histograms[key] IN
        /\ stored.hi - stored.lo <= HistogramCap
        /\ stored.hi = Get(observed.added, key, 0)

\* C18 as stated: a review with the scalar objective under 'loss' and no
\* 'losses' is accepted by the train step: backward raises nothing and
\* back-propagates that scalar.
C18_SingleLossAccepted ==
    (loss # NotCalled /\ review.keys = {"loss"}) =>
        /\ loss.error = "none"
        /\ loss.backward_called
        /\ loss.loss = WeightScale * review.loss

\* The order of the calls of one train step.
C20_Order ==
    <<"optimizer.zero_grad", "model", "model.review", "backward",
      "clip_grad", "optimizer.step", "update_summary">>

\* C20: the calls made so far in a train step are the beginning of
\* zero_grad, forward, review, backward, clip_grad, optimizer.step,
\* update_summary; a step that has completed made all seven and stepped the
\* optimizer once; in a step whose forward, review or backward raised,
\* optimizer.step was not invoked and nothing of the review is in the
\* summary.
C20_StepProtocol ==
    LET calls == step_state.calls IN
    /\ Len(calls) <= Len(C20_Order)
    /\ \A i \in 1..Len(calls) : calls[i] = C20_Order[i]
    /\ step_state.pc = "done" =>
          (calls = C20_Order /\ step_state.optimizer_steps = 1)
    /\ step_state.error # "none" =>
          /\ step_state.optimizer_steps = 0
          /\ \A i \in 1..Len(calls) : calls[i] # "optimizer.step"
          /\ DOMAIN summary_dict.losses = {}
          /\ summary_dict = reset_summary

\* C20 witness: two losses without loss_weights: backward raised, the
\* step ended after four calls, the optimizer did not step.
C20_Witness ==
    /\ step_state.pc = "raised" /\ step_state.error = "Exception"
    /\ loss_weights.is_none /\ DOMAIN review.losses = {"a", "b"}
    /\ Len(step_state.calls) = 4
    /\ step_state.optimizer_steps = 0
    /\ summary_dict = reset_summary

\* ---------------------------------------------------------------- C22
\* The run was started on a newly constructed trainer (no checkpoint was
\* loaded).
FreshRun == loaded = NotLoaded /\ runs = 1

\* train is running (it has been called and has not yet left).
InTrain == pc \notin {"constructed", "returned", "raised"}

\* No iteration-unit trigger fired in the current pass.
NoIterationUnitFiring ==
    /\ validation_trigger.unit = "iteration" => ~pass.val_fired
    /\ summary_trigger.unit = "iteration" => ~pass.summary_fired
    /\ checkpoint_trigger.unit = "iteration" => ~pass.checkpoint_fired

C22_CounterState ==
    /\ (FreshRun /\ pc = "train_step") => iteration = trained
    /\ (InTrain /\ pass.repeated) => NoIterationUnitFiring

C22_CounterStep ==
    /\ InTrain => iteration' >= iteration /\ epoch' >= epoch
    /\ (pc = "pull" /\ pc' = "validation") =>
          /\ epoch' = epoch + 1
          /\ iteration' = iteration
          /\ data_iterator' = 0
          /\ run_log'.iterators = run_log.iterators + 1

\* C22: during train the iteration counter never decreases; when the train
\* source is exhausted the epoch counter grows by exactly one, a fresh
\* iterator is obtained and the iteration counter keeps its value; hence
\* in a fresh run every train step starts with the iteration counter equal
\* to the number of completed train steps, and in the pass that repeats a
\* counter value no iteration-unit trigger fires.
C22_CounterDiscipline == [](C22_CounterState) /\ [][C22_CounterStep]_vars

\* A fresh run reaches a train step in the pass after an exhaustion, at a
\* counter value that is a multiple of the period of the iteration-unit
\* validation trigger, which was asked in this pass and did not fire.
C22_Witness ==
    /\ FreshRun
    /\ pc = "train_step"
    /\ pass.repeated
    /\ epoch > 0
    /\ iteration > 0
    /\ iteration = trained
    /\ validation_trigger.unit = "iteration"
    /\ iteration % validation_trigger.period = 0
    /\ pass.val_evaluated
    /\ ~pass.val_fired

\* ---------------------------------------------------------------- C23
\* A fresh run under max_iterations whose every ended epoch yielded at
\* least one batch.
IterationBoundRun ==
    /\ FreshRun
    /\ max_iterations.unit = "iteration"
    /\ ~run_log.empty_epoch

\* C23: a fresh run with max_iterations = M over a source that yields at
\* least one batch in every epoch starts each train step at an iteration
\* counter below M that equals the number of steps done, and returns after
\* exactly M train steps with iteration = M, whatever the epoch lengths
\* and the three step settings are.
C23_StepsUnderMaxIterations ==
    IterationBoundRun =>
        /\ pc = "train_step" =>
              iteration = trained /\ iteration < max_iterations.period
        /\ pc = "returned" =>
              /\ trained = max_iterations.period
              /\ iteration = max_iterations.period
              /\ model.params = max_iterations.period

\* A fresh run with max_iterations = MaxIterations has returned after more
\* than one epoch.
C23_Witness ==
    /\ IterationBoundRun
    /\ pc = "returned"
    /\ max_iterations.period = MaxIterations
    /\ trained = MaxIterations
    /\ epoch >= 2

\* ---------------------------------------------------------------- C24
\* A fresh run under max_epochs whose every ended epoch yielded the same
\* number L >= 1 of batches.
EpochBoundRun ==
    /\ FreshRun
    /\ max_iterations.unit = "epoch"
    /\ run_log.uniform
    /\ run_log.first_len >= 1

\* C24: a fresh run with max_epochs = E over a source of L >= 1 batches
\* per pass has obtained one iterator for each value the epoch counter has
\* taken, and returns with epoch = E and iteration = E * L after exactly
\* E * L train steps.
C24_StepsUnderMaxEpochs ==
    /\ (FreshRun /\ InTrain) => run_log.iterators = epoch + 1
    /\ (EpochBoundRun /\ pc = "returned") =>
          /\ epoch = max_iterations.period
          /\ trained = max_iterations.period * run_log.first_len
          /\ iteration = max_iterations.period * run_log.first_len

\* A fresh run with max_epochs = MaxEpochs over a source of MaxLen batches
\* has returned.
C24_Witness ==
    /\ EpochBoundRun
    /\ pc = "returned"
    /\ max_iterations.period = MaxEpochs
    /\ run_log.first_len = MaxLen
    /\ run_log.iterators = MaxEpochs + 1
    /\ trained = MaxEpochs * MaxLen

\* ---------------------------------------------------------------- C26
\* The trainer was restored from a checkpoint ckpt_k whose model state
\* reflects exactly k train steps.
ResumedAtStepCount == loaded # NotLoaded /\ loaded.params = loaded.iteration

\* C26: after load_checkpoint of such a checkpoint the iteration counter
\* equals the number of train steps reflected in the restored model, and
\* a resumed run with max_iterations = M > k over non-empty epochs returns
\* with a model that went through exactly M train steps.
C26_ResumeKeepsStepCount ==
    ResumedAtStepCount =>
        /\ pc = "constructed" => iteration = model.params
        /\ ( /\ pc = "returned"
             /\ max_iterations.unit = "iteration"
             /\ max_iterations.period > loaded.iteration
             /\ ~run_log.empty_epoch ) =>
              model.params = max_iterations.period

\* ---------------------------------------------------------------- C27
\* The summary trigger / the checkpoint trigger was asked in this pass.
summary_asked == pass.end_evaluated /\ ~pass.end_fired /\ pc # "summary"
checkpoint_asked == summary_asked /\ pc # "checkpoint"

\* An iteration-unit trigger that was asked in this pass fired exactly if
\* the iteration counter is a multiple of its period.
FiresOnSchedule(trig, asked, fired) ==
    (trig.unit = "iteration" /\ asked) =>
        (fired <=> iteration % trig.period = 0)

AllOnSchedule ==
    /\ FiresOnSchedule(validation_trigger, pass.val_evaluated, pass.val_fired)
    /\ FiresOnSchedule(summary_trigger, summary_asked, pass.summary_fired)
    /\ FiresOnSchedule(checkpoint_trigger, checkpoint_asked,
                       pass.checkpoint_fired)

\* The pass record belongs to the current counter values and the pass is
\* the first one at this iteration value.
FirstPassAtIteration == pc # "validation" /\ ~pass.repeated

\* What an uninterrupted run does: at every iteration value above 0 the
\* iteration-unit triggers fire exactly at the multiples of their period.
UninterruptedSchedule ==
    (FreshRun /\ FirstPassAtIteration /\ iteration > 0) => AllOnSchedule

\* C27: a run resumed from ckpt_k fires the iteration-unit triggers at the
\* same iteration values above k as an uninterrupted run, that is at every
\* multiple of the period, k + 1 included.
C27_ResumeKeepsSchedule ==
    ( /\ loaded # NotLoaded
      /\ FirstPassAtIteration
      /\ iteration > loaded.iteration ) => AllOnSchedule

\* ---------------------------------------------------------------- C28
\* The values of train steps emitted so far, under either prefix.
emitted_train_values == writer.training.train + writer.validation.train

\* C28: every value a completed train step merged into the summary buffer
\* is either still pending or has been emitted by exactly one add_summary,
\* and nothing is pending once train has left.
C28_EachSampleFlushedOnce ==
    /\ emitted_train_values + summary.train = trained
    /\ pc \in {"returned", "raised"} => summary.train = 0

\* train has returned after several train steps, part of whose values went
\* out with an earlier flush and the rest with the final one.
C28_Witness ==
    /\ pc = "returned"
    /\ trained >= 2
    /\ run_log.flush_steps >= 1
    /\ run_log.flush_steps < trained
    /\ writer.training.train = trained

\* ---------------------------------------------------------------- C29
\* C29: values merged by validation steps are emitted under 'validation'
\* only and values merged by train steps under 'training' only, also when
\* a step raises.
C29_PrefixSeparation ==
    /\ writer.training.validation = 0
    /\ writer.validation.train = 0

\* ---------------------------------------------------------------- C30
\* C30: as long as nothing has raised, the timer handed to the last
\* add_summary held as many samples of time_per_step, of
\* time_per_data_loading and of time_per_train_step as train steps were
\* completed since the flush before, so the three lengths were equal.
C30_TimerSeriesAligned ==
    error = "none" =>
        /\ run_log.flush_timer.time_per_step = run_log.flush_steps
        /\ run_log.flush_timer.time_per_data_loading = run_log.flush_steps
        /\ run_log.flush_timer.time_per_train_step = run_log.flush_steps

\* ---------------------------------------------------------------- C25
\* C25: whatever the (finite) train and validation sources yield, a call
\* of train eventually returns or raises.
C25_TrainTerminates == InTrain ~> (pc \in {"returned", "raised"})

\* ---------------------------------------------------------------- C21
\* The flattened keys of the recorded structure: the joined key paths of
\* a mapping, the positions (from 0) of a sequence.
flattened_keys ==
    IF clip.grad_norm.kind = "mapping"
    THEN {flatten_key(path) : path \in DOMAIN clip.grad_norm.leaves}
    ELSE {ToString(i - 1) : i \in DOMAIN clip.grad_norm.elements}

\* The keys clip_grad appended to in a section of the summary.
appended_keys(section) ==
    {a.key : a \in {b \in clip.appended : b.section = section}}

\* C21: for a nested grad_norm clip_grad appends to exactly the scalars
\* grad_norm_<key> and the histograms grad_norm_<key>_ of the flattened
\* keys, for a single norm to grad_norm and grad_norm_, once each, and
\* every value it appends is a single norm.
C21_GradNormRecording ==
    clip.called =>
        LET name == prefix_of(clip.prefix) \o "grad_norm" IN
        /\ \A a \in clip.appended : a.value.single
        /\ clip.grad_norm.kind = "number" =>
              /\ appended_keys("scalars") = {name}
              /\ appended_keys("histograms") = {name \o "_"}
        /\ clip.grad_norm.kind # "number" =>
              /\ appended_keys("scalars") =
                    {name \o "_" \o k : k \in flattened_keys}
              /\ appended_keys("histograms") =
                    {name \o "_" \o k \o "_" : k \in flattened_keys}
        /\ Cardinality(clip.appended) =
              2 * Cardinality(appended_keys("scalars"))

====
